---- MODULE Spec2Model ----
(***************************************************************************)
(* Model of reviewScraper.js: the retry/backoff policy of                  *)
(* ReviewScraper.safeRequest, the date-window filter, the browser session  *)
(* of G2Scraper and CapterraScraper, the pagination loops of the three     *)
(* scrapers, and the loop of main over the requested sources.              *)
(***************************************************************************)
EXTENDS Integers, Sequences, FiniteSets, TLC

VARIABLES
    \* ---- ReviewScraper instance state
    userAgent,      \* this.axiosConfig.headers['User-Agent']
    \* ---- one safeRequest call made directly on the instance
    srPc,           \* "idle" | "running" | "returned"
    srUrl,          \* the url argument
    srMaxRetries,   \* the maxRetries argument
    attempt,        \* the loop variable of safeRequest
    srLog,          \* one entry per axios.get of this call: url, User-Agent, outcome, backoff wait
    srResult,       \* the value the call returned (a response or null)
    \* ---- one scrapeReviews run
    source,         \* which scraper runs: "g2" | "capterra" | "trustpilot"
    startDate,      \* window start (day number)
    endDate,        \* window end (day number)
    maxPages,       \* the maxPages argument (-1 = no cap)
    pc,             \* "cli" | "start" | "loop" | "done" | "failed" | "output" | "exited"
    page,           \* let page
    hasMorePages,   \* let hasMorePages
    consecutiveEmptyPages, \* let consecutiveEmptyPages
    reviews,        \* const reviews = []
    last,           \* what the most recent loop iteration (or the throw) did
    inFlight,       \* the listing-page requests and navigations begun and not yet ended
    \* ---- the browser sessions
    chrome,         \* the Chrome behind http://localhost:9222
    session,        \* this.browser and this.page of the G2 and the Capterra scraper
    sessionLog,     \* the steps of the initializeBrowser calls, in order
    navigations,    \* the page handles page.goto was called on, per scraper
    \* ---- main
    queue,          \* the sources of sourcesToScrape still to come
    allReviews,     \* const allReviews = []
    scrapingResults, \* const scrapingResults = {}
    options,        \* program.opts(): --start-date, --end-date, --source, --company
    mainError,      \* the error main's outer catch caught ("none" = none)
    outputFile,     \* the file at options.output
    exitCode,       \* the code the process ends with (NULL while it runs)
    \* ---- the page of a browser scraper, its challenge detector and waiter
    view,           \* what this.page shows and which of its operations raise
    detector,       \* one detectCaptcha call: its position and what it returned
    now,            \* Date.now()
    waiter,         \* one waitForPageReady call: arguments, startTime, last tick, outcome
    navigate,       \* one navigateToPage call: position, what it saw, outcome
    pageItems       \* const reviewElements, for a page whose filtering is followed on its own

srVars == <<srPc, srUrl, srMaxRetries, attempt, srLog, srResult>>
sessionVars == <<chrome, session, sessionLog, navigations>>
mainVars == <<queue, allReviews, scrapingResults, options, mainError, outputFile, exitCode>>
pageVars == <<view, detector, now, waiter, navigate, pageItems>>
scrapeVars == <<source, startDate, endDate, maxPages, pc, page, hasMorePages,
                consecutiveEmptyPages, reviews, last, inFlight>>
runVars == <<source, startDate, endDate, maxPages, pc, page, hasMorePages,
             consecutiveEmptyPages, reviews, last, inFlight,
             chrome, session, sessionLog, navigations,
             queue, allReviews, scrapingResults, options, mainError, outputFile, exitCode,
             view, detector, now, waiter, navigate, pageItems>>
vars == <<userAgent, srPc, srUrl, srMaxRetries, attempt, srLog, srResult,
          source, startDate, endDate, maxPages, pc, page, hasMorePages,
          consecutiveEmptyPages, reviews, last, inFlight,
          chrome, session, sessionLog, navigations,
          queue, allReviews, scrapingResults, options, mainError, outputFile, exitCode,
          view, detector, now, waiter, navigate, pageItems>>

\* JavaScript null / undefined: no date, no response, no content
NULL == -1

(***************************************************************************)
(* Bounds of the model                                                     *)
(***************************************************************************)
\* largest maxRetries argument a direct safeRequest call is given
MaxRetriesArg == 4
\* largest number of review elements findReviewElements returns for one page
MaxItems == 2
\* largest page number for which the site's listing holds review elements
PageCap == 3

(***************************************************************************)
(* Dates: parseDate and isDateInRange                                      *)
(***************************************************************************)
\* Sample date strings as extractReviewData stores them for a label moment
\* reads (parsedDate.format('MMMM DD, YYYY')), which parseDate accepts with
\* its format 'MMMM DD, YYYY', with the calendar day they denote, counted in
\* days from 2023-12-31 (local midnight).
MomentDay ==
    [ds \in {"December 31, 2023", "January 02, 2024", "January 04, 2024"} |->
        CASE ds = "December 31, 2023" -> 0
          [] ds = "January 02, 2024"  -> 2
          [] ds = "January 04, 2024"  -> 4]

\* Date strings an extracted record can carry: the formatted samples, the
\* placeholder parseDate rejects up front, and a label moment does not read,
\* stored as it is, which no format of parseDate matches.
DateStrings == DOMAIN MomentDay \cup {"Unknown", "not a date"}

\* A sample date string that only the strict format 'DD/MM/YYYY' of parseDate
\* accepts: moment(str) without a format hands it to the Date constructor,
\* which reads 13 as a month and gives an invalid date.
DayFirstDay == [ds \in {"13/01/2024"} |-> 13]

\* parseDate(dateStr): a day number, or NULL
parseDate(dateStr) ==
    IF dateStr = "" \/ dateStr = "Unknown" \/ dateStr = "No date"
    THEN NULL
    ELSE IF dateStr \in DOMAIN MomentDay THEN MomentDay[dateStr]
    ELSE IF dateStr \in DOMAIN DayFirstDay THEN DayFirstDay[dateStr]
    ELSE NULL

\* isDateInRange(reviewDate, startDate, endDate)
\* (faulty variant: the end of the window is not tested)
isDateInRangeNoEnd(reviewDate, s, e) ==
    IF reviewDate = NULL THEN FALSE ELSE reviewDate >= s
isDateInRange(reviewDate, s, e) ==
    IF reviewDate = NULL THEN FALSE ELSE reviewDate >= s /\ reviewDate <= e

(***************************************************************************)
(* safeRequest                                                             *)
(***************************************************************************)
\* the pool of getRandomUserAgent
userAgents == << "Chrome120-Windows", "Chrome120-Mac", "Firefox121-Windows", "Safari17-Mac" >>

\* the User-Agent the constructor puts into axiosConfig (the same string as userAgents[1])
InitialUserAgent == userAgents[1]

\* getRandomUserAgent(), r = Math.floor(Math.random() * userAgents.length) + 1
getRandomUserAgent(r) == userAgents[r]

RandomIndexes == 1..Len(userAgents)

\* default of the maxRetries parameter
DefaultMaxRetries == 3
\* base of the 429 and transient-error backoff, in ms
BackoffBase == 2000
\* the wait after a 403, in ms
ForbiddenWait == 3000

\* What one axios.get can do: resolve with a 2xx status, reject with an error
\* status, or reject without a response (status 0: network error or timeout).
NoResponse == 0
Outcomes == {200, 204, 429, 403, 404, 500, NoResponse}

\* axios resolves the promise for a 2xx status and rejects otherwise
Resolves(outcome) == outcome >= 200 /\ outcome <= 299

RECURSIVE Pow2(_)
Pow2(n) == IF n <= 0 THEN 1 ELSE 2 * Pow2(n - 1)

\* const waitTime = Math.pow(2, attempt) * 2000
\* (faulty variant: linear instead of exponential, and never the same twice)
RateLimitWaitLinear(a) == BackoffBase * (a + 2)
RateLimitWait(a) == Pow2(a) * BackoffBase

\* this.sleep(2000 * (attempt + 1))
TransientWait(a) == BackoffBase * (a + 1)

\* The outcome of one iteration of the for loop: the backoff wait performed
\* (0 = none), the User-Agent afterwards, whether the function returned inside
\* the iteration, and the value returned (the response's status, or NULL).
Iteration(w, ua, ret, res) == [wait |-> w, ua |-> ua, returned |-> ret, result |-> res]

\* try block, axios.get resolved: only status 200 is returned; after any other
\* 2xx status the try block ends and the loop goes to its next iteration
OnResponse(a, ua, outcome) ==
    IF outcome = 200
    THEN Iteration(0, ua, TRUE, outcome)
    ELSE Iteration(0, ua, FALSE, NULL)

\* statusCode === 429
OnRateLimited(a, ua) == Iteration(RateLimitWait(a), ua, FALSE, NULL)

\* statusCode === 403: r is the random index getRandomUserAgent draws
OnForbidden(a, ua, r) == Iteration(ForbiddenWait, getRandomUserAgent(r), FALSE, NULL)

\* statusCode === 404
\* (faulty variant: a 404 handled like a transient error)
OnNotFoundRetry(a, ua) == Iteration(TransientWait(a), ua, FALSE, NULL)
OnNotFound(a, ua) == Iteration(0, ua, TRUE, NULL)

\* any other error, with or without a response
\* (faulty variant: the last attempt also waits instead of returning)
OnOtherErrorAlwaysWait(a, ua, maxR) == Iteration(TransientWait(a), ua, FALSE, NULL)
OnOtherError(a, ua, maxR) ==
    IF a = maxR - 1
    THEN Iteration(0, ua, TRUE, NULL)
    ELSE Iteration(TransientWait(a), ua, FALSE, NULL)

\* One iteration of the for loop of safeRequest at attempt a with the
\* User-Agent ua, for the outcome of its axios.get.
Attempt(a, ua, maxR, outcome, r) ==
    IF Resolves(outcome) THEN OnResponse(a, ua, outcome)
    ELSE IF outcome = 429 THEN OnRateLimited(a, ua)
    ELSE IF outcome = 403 THEN OnForbidden(a, ua, r)
    ELSE IF outcome = 404 THEN OnNotFound(a, ua)
    ELSE OnOtherError(a, ua, maxR)

Urls == {"search", "listing"}

\* safeRequest(url, maxRetries) is called on the instance: let attempt = 0,
\* and with maxRetries <= 0 the loop body never runs and null is returned.
\* (faulty variant: the attempt counter is an instance field that survives calls)
SafeRequestCallKeepAttempt(url, maxR) ==
    /\ srPc \in {"idle", "returned"}
    /\ srUrl' = url
    /\ srMaxRetries' = maxR
    /\ attempt' = IF attempt < maxR THEN attempt ELSE 0
    /\ srLog' = << >>
    /\ srResult' = NULL
    /\ srPc' = IF 0 < maxR THEN "running" ELSE "returned"
    /\ UNCHANGED <<userAgent>>
    /\ UNCHANGED runVars
SafeRequestCall(url, maxR) ==
    /\ srPc \in {"idle", "returned"}
    /\ srUrl' = url
    /\ srMaxRetries' = maxR
    /\ attempt' = 0
    /\ srLog' = << >>
    /\ srResult' = NULL
    /\ srPc' = IF 0 < maxR THEN "running" ELSE "returned"
    /\ UNCHANGED <<userAgent>>
    /\ UNCHANGED runVars

\* One iteration of the loop of the running call, up to and including the
\* loop test that follows it (attempt++ ; attempt < maxRetries ; return null).
SafeRequestAttempt(outcome, r) ==
    /\ srPc = "running"
    /\ attempt < srMaxRetries
    /\ LET it == Attempt(attempt, userAgent, srMaxRetries, outcome, r) IN
        /\ srLog' = Append(srLog, [url |-> srUrl, ua |-> userAgent,
                                   outcome |-> outcome, wait |-> it.wait])
        /\ userAgent' = it.ua
        /\ IF it.returned
           THEN /\ srPc' = "returned"
                /\ srResult' = it.result
                /\ attempt' = attempt
           ELSE /\ attempt' = attempt + 1
                /\ srResult' = NULL
                /\ srPc' = IF attempt + 1 < srMaxRetries THEN "running" ELSE "returned"
    /\ UNCHANGED <<srUrl, srMaxRetries>>
    /\ UNCHANGED runVars

CallSafeRequest == \E url \in Urls, maxR \in 0..MaxRetriesArg : SafeRequestCall(url, maxR)
RunSafeRequest == \E outcome \in Outcomes, r \in RandomIndexes : SafeRequestAttempt(outcome, r)

(***************************************************************************)
(* The browser session of G2Scraper and CapterraScraper                    *)
(***************************************************************************)
\* the scrapers that drive a browser
BrowserSources == {"g2", "capterra"}

\* this.browser = null; this.page = null (the constructors).  A page handle is
\* the connection it belongs to and the tab of the browser it stands for.
NoPage == [connection |-> NULL, tab |-> NULL]
NoSession == [browser |-> NULL, page |-> NoPage]

\* The Chrome listening on the debug port 9222: whether the endpoint answers,
\* the number of browser contexts it reports, the tabs of its first context in
\* the order context.pages() lists them, and the number of CDP connections
\* made to it so far.
ChromeNotRunning == [running |-> FALSE, contexts |-> 0, tabs |-> << >>, connections |-> 0]
ChromeWithTabs(tabs) == [running |-> TRUE, contexts |-> 1, tabs |-> tabs, connections |-> 0]
ChromeWithoutContext == [running |-> TRUE, contexts |-> 0, tabs |-> << >>, connections |-> 0]
\* a Chrome freshly started by launchChromeWithDebugPort: one window, one tab
ChromeLaunched == ChromeWithTabs(<< 1 >>)

\* one step of initializeBrowser, as logged
Step(src, op, ok, pages) == [source |-> src, op |-> op, ok |-> ok, pages |-> pages]

\* the state the session code works on: the Chrome, the scraper's fields, the
\* log, and the result of the call (connected, or threw for initializeBrowser)
SessionState(c, f, log, ok) == [chrome |-> c, fields |-> f, log |-> log, ok |-> ok]

\* connectToExistingChrome(): connectOverCDP, contexts(), pages(), newPage()
\* (faulty variant: a new page is opened at every attach)
connectToExistingChromeAlwaysNewPage(st, src) ==
    IF ~st.chrome.running
    THEN SessionState(st.chrome, st.fields, Append(st.log, Step(src, "attach", FALSE, 0)), FALSE)
    ELSE LET conn == st.chrome.connections + 1
             c == [st.chrome EXCEPT !.connections = conn]
             tab == Len(c.tabs) + 1
         IN IF c.contexts = 0
            THEN SessionState(c, [st.fields EXCEPT !.browser = conn],
                              Append(st.log, Step(src, "attach", FALSE, 0)), FALSE)
            ELSE SessionState([c EXCEPT !.tabs = Append(@, tab)],
                              [browser |-> conn, page |-> [connection |-> conn, tab |-> tab]],
                              st.log \o << Step(src, "attach", TRUE, Len(c.tabs)),
                                           Step(src, "newPage", TRUE, Len(c.tabs)) >>,
                              TRUE)
connectToExistingChrome(st, src) ==
    IF ~st.chrome.running
    THEN \* connectOverCDP throws: nothing is assigned
         SessionState(st.chrome, st.fields, Append(st.log, Step(src, "attach", FALSE, 0)), FALSE)
    ELSE LET conn == st.chrome.connections + 1
             c == [st.chrome EXCEPT !.connections = conn]
         IN IF c.contexts = 0
            THEN \* this.browser is assigned, then 'No browser contexts found'
                 SessionState(c, [st.fields EXCEPT !.browser = conn],
                              Append(st.log, Step(src, "attach", FALSE, 0)), FALSE)
            ELSE IF Len(c.tabs) = 0
            THEN \* this.page = await context.newPage()
                 LET tab == 1 IN
                 SessionState([c EXCEPT !.tabs = << tab >>],
                              [browser |-> conn, page |-> [connection |-> conn, tab |-> tab]],
                              st.log \o << Step(src, "attach", TRUE, 0),
                                           Step(src, "newPage", TRUE, 0) >>,
                              TRUE)
            ELSE \* this.page = pages[0]
                 SessionState(c,
                              [browser |-> conn, page |-> [connection |-> conn, tab |-> Head(c.tabs)]],
                              Append(st.log, Step(src, "attach", TRUE, Len(c.tabs))),
                              TRUE)

\* findChromeExecutable(): exe = an executable exists at one of the paths
findChromeExecutable(st, src, exe) ==
    [st EXCEPT !.log = Append(@, Step(src, "locate", exe, 0))]

\* launchChromeWithDebugPort(chromePath): started = the Chrome comes up and
\* listens on the port.  A Chrome that already holds the port keeps it.
launchChromeWithDebugPort(st, src, started) ==
    [st EXCEPT !.log = Append(@, Step(src, "launch", started, 0)),
               !.chrome = IF started /\ ~st.chrome.running THEN ChromeLaunched ELSE @]

\* initializeBrowser(): ok = it returned true, ~ok = it threw
\* (faulty variant: Chrome is launched without trying to attach first)
initializeBrowserLaunchFirst(st0, src, exe, started) ==
    LET st == [st0 EXCEPT !.log = Append(@, Step(src, "initializeBrowser", TRUE, 0))]
        located == findChromeExecutable(st, src, exe)
        second == IF exe
                  THEN connectToExistingChrome(
                           launchChromeWithDebugPort(located, src, started), src)
                  ELSE [located EXCEPT !.ok = FALSE]
    IN IF second.ok THEN second
       ELSE [second EXCEPT !.log = Append(@, Step(src, "throw", FALSE, 0))]
initializeBrowser(st0, src, exe, started) ==
    LET st == [st0 EXCEPT !.log = Append(@, Step(src, "initializeBrowser", TRUE, 0))]
        first == connectToExistingChrome(st, src)
    IN IF first.ok THEN first
       ELSE LET located == findChromeExecutable(first, src, exe)
                second == IF exe
                          THEN connectToExistingChrome(
                                   launchChromeWithDebugPort(located, src, started), src)
                          ELSE [located EXCEPT !.ok = FALSE]
            IN IF second.ok THEN second
               ELSE \* throw new Error('Could not connect to Chrome')
                    [second EXCEPT !.log = Append(@, Step(src, "throw", FALSE, 0))]

\* the page handle navigateToPage calls page.goto on: this.page
\* (faulty variant: every navigation happens on a page of a new connection)
NavigationHandleFresh(src, fields) ==
    [source |-> src,
     page |-> [connection |-> fields.browser + 1 + Cardinality(navigations),
               tab |-> fields.page.tab]]
NavigationHandle(src, fields) == [source |-> src, page |-> fields.page]

\* The session acquisition at the start of scrapeReviews.  G2: the
\* initializeBrowser call of findProductUrl.  Capterra: the initializeBrowser
\* call of scrapeReviews and, when it returned, the one of findProductUrl.
\* findProductUrl calls initializeBrowser after validateCompanyName, so not
\* at all when that raised (named = it returned).
\* st = the Chrome and the session fields before it.
AcquireSession(st, src, exe, started, named) ==
    LET first == initializeBrowser(st, src, exe, started)
    IN IF src = "capterra"
       THEN IF first.ok /\ named
            THEN initializeBrowser(first, src, exe, started)
            ELSE first
       ELSE IF named THEN first ELSE st

(***************************************************************************)
(* The challenge detector: detectCaptcha                                   *)
(***************************************************************************)
\* A text (a selector apart) is the sequence of its UTF-16 code units: an
\* ASCII character stands for itself, another code unit is written "U+" and
\* its four hexadecimal digits.
UpperLetters ==
    << "A", "B", "C", "D", "E", "F", "G", "H", "I", "J", "K", "L", "M", "N", "O", "P", "Q", "R", "S", "T", "U", "V", "W", "X", "Y", "Z" >>
LowerLetters ==
    << "a", "b", "c", "d", "e", "f", "g", "h", "i", "j", "k", "l", "m", "n", "o", "p", "q", "r", "s", "t", "u", "v", "w", "x", "y", "z" >>

\* The lower case of letters outside ASCII, as String.prototype.toLowerCase
\* gives it: the two characters of Unicode whose lower case holds an ASCII
\* letter (KELVIN SIGN gives 'k'; LATIN CAPITAL LETTER I WITH DOT ABOVE gives
\* 'i' and COMBINING DOT ABOVE, two code units), and the capital letters of
\* Latin-1 (U+00C0 to U+00DE without the multiplication sign), whose lower
\* case is 32 code points up.
SpecialLower ==
    [c \in {"U+212A", "U+0130", "U+00C0", "U+00C1", "U+00C2", "U+00C3",
            "U+00C4", "U+00C5", "U+00C6", "U+00C7", "U+00C8", "U+00C9",
            "U+00CA", "U+00CB", "U+00CC", "U+00CD", "U+00CE", "U+00CF",
            "U+00D0", "U+00D1", "U+00D2", "U+00D3", "U+00D4", "U+00D5",
            "U+00D6", "U+00D8", "U+00D9", "U+00DA", "U+00DB", "U+00DC",
            "U+00DD", "U+00DE"} |->
        CASE c = "U+212A" -> << "k" >>
          [] c = "U+0130" -> << "i", "U+0307" >>
          [] c = "U+00C0" -> << "U+00E0" >>
          [] c = "U+00C1" -> << "U+00E1" >>
          [] c = "U+00C2" -> << "U+00E2" >>
          [] c = "U+00C3" -> << "U+00E3" >>
          [] c = "U+00C4" -> << "U+00E4" >>
          [] c = "U+00C5" -> << "U+00E5" >>
          [] c = "U+00C6" -> << "U+00E6" >>
          [] c = "U+00C7" -> << "U+00E7" >>
          [] c = "U+00C8" -> << "U+00E8" >>
          [] c = "U+00C9" -> << "U+00E9" >>
          [] c = "U+00CA" -> << "U+00EA" >>
          [] c = "U+00CB" -> << "U+00EB" >>
          [] c = "U+00CC" -> << "U+00EC" >>
          [] c = "U+00CD" -> << "U+00ED" >>
          [] c = "U+00CE" -> << "U+00EE" >>
          [] c = "U+00CF" -> << "U+00EF" >>
          [] c = "U+00D0" -> << "U+00F0" >>
          [] c = "U+00D1" -> << "U+00F1" >>
          [] c = "U+00D2" -> << "U+00F2" >>
          [] c = "U+00D3" -> << "U+00F3" >>
          [] c = "U+00D4" -> << "U+00F4" >>
          [] c = "U+00D5" -> << "U+00F5" >>
          [] c = "U+00D6" -> << "U+00F6" >>
          [] c = "U+00D8" -> << "U+00F8" >>
          [] c = "U+00D9" -> << "U+00F9" >>
          [] c = "U+00DA" -> << "U+00FA" >>
          [] c = "U+00DB" -> << "U+00FB" >>
          [] c = "U+00DC" -> << "U+00FC" >>
          [] c = "U+00DD" -> << "U+00FD" >>
          [] c = "U+00DE" -> << "U+00FE" >>]

\* The code units the texts of the model are written with: the white space
\* and the printable characters of ASCII, Latin-1 from U+00A0 on, and the
\* three code units of the two special letters and their lower cases (the
\* grave accent is written "U+0060").
CodeUnits ==
    {"\t", "\n", "\f", "\r", " ", "!", "\"", "#", "$", "%", "&", "'", "(",
     ")", "*", "+", ",", "-", ".", "/", "0", "1", "2", "3", "4", "5", "6",
     "7", "8", "9", ":", ";", "<", "=", ">", "?", "@", "A", "B", "C", "D",
     "E", "F", "G", "H", "I", "J", "K", "L", "M", "N", "O", "P", "Q", "R",
     "S", "T", "U", "V", "W", "X", "Y", "Z", "[", "\\", "]", "^", "_", "U+0060",
     "a", "b", "c", "d", "e", "f", "g", "h", "i", "j", "k", "l", "m", "n",
     "o", "p", "q", "r", "s", "t", "u", "v", "w", "x", "y", "z", "{", "|",
     "}", "~", "U+00A0", "U+00A1", "U+00A2", "U+00A3", "U+00A4", "U+00A5",
     "U+00A6", "U+00A7", "U+00A8", "U+00A9", "U+00AA", "U+00AB", "U+00AC",
     "U+00AD", "U+00AE", "U+00AF", "U+00B0", "U+00B1", "U+00B2", "U+00B3",
     "U+00B4", "U+00B5", "U+00B6", "U+00B7", "U+00B8", "U+00B9", "U+00BA",
     "U+00BB", "U+00BC", "U+00BD", "U+00BE", "U+00BF", "U+00C0", "U+00C1",
     "U+00C2", "U+00C3", "U+00C4", "U+00C5", "U+00C6", "U+00C7", "U+00C8",
     "U+00C9", "U+00CA", "U+00CB", "U+00CC", "U+00CD", "U+00CE", "U+00CF",
     "U+00D0", "U+00D1", "U+00D2", "U+00D3", "U+00D4", "U+00D5", "U+00D6",
     "U+00D7", "U+00D8", "U+00D9", "U+00DA", "U+00DB", "U+00DC", "U+00DD",
     "U+00DE", "U+00DF", "U+00E0", "U+00E1", "U+00E2", "U+00E3", "U+00E4",
     "U+00E5", "U+00E6", "U+00E7", "U+00E8", "U+00E9", "U+00EA", "U+00EB",
     "U+00EC", "U+00ED", "U+00EE", "U+00EF", "U+00F0", "U+00F1", "U+00F2",
     "U+00F3", "U+00F4", "U+00F5", "U+00F6", "U+00F7", "U+00F8", "U+00F9",
     "U+00FA", "U+00FB", "U+00FC", "U+00FD", "U+00FE", "U+00FF", "U+0130",
     "U+0307", "U+212A"}

\* String.prototype.toLowerCase of one character of CodeUnits: the code units
\* it becomes.  A text with a code unit outside CodeUnits (a capital letter
\* of another block, a final sigma, a surrogate) has no lower case here.
LowerOf(c) ==
    IF \E i \in DOMAIN UpperLetters : UpperLetters[i] = c
    THEN << LowerLetters[CHOOSE i \in DOMAIN UpperLetters : UpperLetters[i] = c] >>
    ELSE IF c \in DOMAIN SpecialLower THEN SpecialLower[c]
    ELSE CASE c \in CodeUnits -> << c >>
\* String.prototype.toLowerCase of a text over CodeUnits, where the lower case
\* of a text is the lower cases of its characters, in a row
RECURSIVE toLowerCase(_)
toLowerCase(s) ==
    IF s = << >> THEN << >> ELSE LowerOf(Head(s)) \o toLowerCase(Tail(s))

\* String.prototype.toUpperCase, character by character
UpperOf(c) ==
    IF \E i \in DOMAIN LowerLetters : LowerLetters[i] = c
    THEN UpperLetters[CHOOSE i \in DOMAIN LowerLetters : LowerLetters[i] = c]
    ELSE c
toUpperCase(s) == [i \in 1..Len(s) |-> UpperOf(s[i])]

\* String.prototype.includes: t occurs in s as a contiguous part
includes(s, t) ==
    \/ t = << >>
    \/ \E i \in 1..(Len(s) - Len(t) + 1) :
          s[i] = t[1] /\ SubSeq(s, i, i + Len(t) - 1) = t

\* const captchaSelectors = [...], the same list in both scrapers
captchaSelectors ==
    << ".g-recaptcha", "#recaptcha", "[data-testid*=\"captcha\"]", ".captcha",
       ".cf-browser-verification", ".challenge-running",
       "iframe[src*=\"recaptcha\"]", "iframe[src*=\"captcha\"]",
       ".cloudflare-browser-verification" >>

\* const captchaText = [...] of G2Scraper.detectCaptcha, as written
G2CaptchaText ==
    <<
      \* 'please complete the security check'
      << "p", "l", "e", "a", "s", "e", " ", "c", "o", "m", "p", "l", "e", "t",
         "e", " ", "t", "h", "e", " ", "s", "e", "c", "u", "r", "i", "t", "y",
         " ", "c", "h", "e", "c", "k" >>,
      \* 'verify you are human'
      << "v", "e", "r", "i", "f", "y", " ", "y", "o", "u", " ", "a", "r", "e",
         " ", "h", "u", "m", "a", "n" >>,
      \* 'prove you are not a robot'
      << "p", "r", "o", "v", "e", " ", "y", "o", "u", " ", "a", "r", "e", " ",
         "n", "o", "t", " ", "a", " ", "r", "o", "b", "o", "t" >>,
      \* 'complete the captcha'
      << "c", "o", "m", "p", "l", "e", "t", "e", " ", "t", "h", "e", " ", "c",
         "a", "p", "t", "c", "h", "a" >>,
      \* 'security verification'
      << "s", "e", "c", "u", "r", "i", "t", "y", " ", "v", "e", "r", "i", "f",
         "i", "c", "a", "t", "i", "o", "n" >>,
      \* 'checking your browser'
      << "c", "h", "e", "c", "k", "i", "n", "g", " ", "y", "o", "u", "r", " ",
         "b", "r", "o", "w", "s", "e", "r" >>,
      \* 'cloudflare'
      << "c", "l", "o", "u", "d", "f", "l", "a", "r", "e" >>,
      \* 'Verifying you are human. This may take a few seconds.'
      << "V", "e", "r", "i", "f", "y", "i", "n", "g", " ", "y", "o", "u", " ",
         "a", "r", "e", " ", "h", "u", "m", "a", "n", ".", " ", "T", "h", "i",
         "s", " ", "m", "a", "y", " ", "t", "a", "k", "e", " ", "a", " ", "f",
         "e", "w", " ", "s", "e", "c", "o", "n", "d", "s", "." >>,
      \* 'just a moment while we check your browser'
      << "j", "u", "s", "t", " ", "a", " ", "m", "o", "m", "e", "n", "t", " ",
         "w", "h", "i", "l", "e", " ", "w", "e", " ", "c", "h", "e", "c", "k",
         " ", "y", "o", "u", "r", " ", "b", "r", "o", "w", "s", "e", "r" >>
    >>

\* const captchaText = [...] of CapterraScraper.detectCaptcha, as written
CapterraCaptchaText ==
    <<
      \* 'please complete the security check'
      << "p", "l", "e", "a", "s", "e", " ", "c", "o", "m", "p", "l", "e", "t",
         "e", " ", "t", "h", "e", " ", "s", "e", "c", "u", "r", "i", "t", "y",
         " ", "c", "h", "e", "c", "k" >>,
      \* 'verify you are human'
      << "v", "e", "r", "i", "f", "y", " ", "y", "o", "u", " ", "a", "r", "e",
         " ", "h", "u", "m", "a", "n" >>,
      \* 'prove you are not a robot'
      << "p", "r", "o", "v", "e", " ", "y", "o", "u", " ", "a", "r", "e", " ",
         "n", "o", "t", " ", "a", " ", "r", "o", "b", "o", "t" >>,
      \* 'complete the captcha'
      << "c", "o", "m", "p", "l", "e", "t", "e", " ", "t", "h", "e", " ", "c",
         "a", "p", "t", "c", "h", "a" >>,
      \* 'security verification'
      << "s", "e", "c", "u", "r", "i", "t", "y", " ", "v", "e", "r", "i", "f",
         "i", "c", "a", "t", "i", "o", "n" >>,
      \* 'checking your browser'
      << "c", "h", "e", "c", "k", "i", "n", "g", " ", "y", "o", "u", "r", " ",
         "b", "r", "o", "w", "s", "e", "r" >>,
      \* 'Verifying you are human. This may take a few seconds.'
      << "V", "e", "r", "i", "f", "y", "i", "n", "g", " ", "y", "o", "u", " ",
         "a", "r", "e", " ", "h", "u", "m", "a", "n", ".", " ", "T", "h", "i",
         "s", " ", "m", "a", "y", " ", "t", "a", "k", "e", " ", "a", " ", "f",
         "e", "w", " ", "s", "e", "c", "o", "n", "d", "s", "." >>,
      \* 'Verify you are human by completing the action below.'
      << "V", "e", "r", "i", "f", "y", " ", "y", "o", "u", " ", "a", "r", "e",
         " ", "h", "u", "m", "a", "n", " ", "b", "y", " ", "c", "o", "m", "p",
         "l", "e", "t", "i", "n", "g", " ", "t", "h", "e", " ", "a", "c", "t",
         "i", "o", "n", " ", "b", "e", "l", "o", "w", "." >>,
      \* 'browser verification'
      << "b", "r", "o", "w", "s", "e", "r", " ", "v", "e", "r", "i", "f", "i",
         "c", "a", "t", "i", "o", "n" >>,
      \* 'security check'
      << "s", "e", "c", "u", "r", "i", "t", "y", " ", "c", "h", "e", "c", "k" >>
    >>

captchaText(src) == IF src = "g2" THEN G2CaptchaText ELSE CapterraCaptchaText

\* How a call ends: it returns a value, or it throws.
Return(v) == [type |-> "return", value |-> v]
Thrown == [type |-> "throw", value |-> FALSE]

\* companyName.trim(), a name being the sequence of its code units: the
\* white space and the line terminators at both ends are removed (the
\* vertical tab is written "U+000B")
RECURSIVE trim(_)
trim(t) ==
    LET WhiteSpace ==
            {" ", "\t", "\n", "\f", "\r", "U+000B", "U+00A0", "U+1680", "U+2000", "U+2001",
             "U+2002", "U+2003", "U+2004", "U+2005", "U+2006", "U+2007", "U+2008",
             "U+2009", "U+200A", "U+2028", "U+2029", "U+202F", "U+205F", "U+3000",
             "U+FEFF"}
    IN
    IF t = << >> THEN t
    ELSE IF Head(t) \in WhiteSpace THEN trim(Tail(t))
    ELSE IF t[Len(t)] \in WhiteSpace THEN trim(SubSeq(t, 1, Len(t) - 1))
    ELSE t
\* validateCompanyName(companyName): '' (falsy) and a name of white space
\* alone raise 'Company name must be a non-empty string', any other name is
\* returned trimmed
validateCompanyName(companyName) ==
    IF companyName = << >> \/ Len(trim(companyName)) = 0
    THEN Thrown
    ELSE Return(trim(companyName))

\* The page as detectCaptcha meets it: attached = this.page is a page (not
\* null), markers = the selectors of captchaSelectors that match an element,
\* content = what page.content() gives, failAt = the page operation of the
\* call that raises (0 = none, i = the query of the i-th selector, one more
\* than the number of selectors = the content read).
View(attached, markers, content, failAt) ==
    [attached |-> attached, markers |-> markers, content |-> content, failAt |-> failAt]
ContentRead == Len(captchaSelectors) + 1
PageOperationRaises(v, i) == ~v.attached \/ v.failAt = i

\* for (const selector of captchaSelectors) { const element = await
\* this.page.$(selector); if (element) return true; }, from the i-th selector on
RECURSIVE QuerySelectors(_, _)
QuerySelectors(v, i) ==
    IF i > Len(captchaSelectors) THEN "none"
    ELSE IF PageOperationRaises(v, i) THEN "throw"
    ELSE IF captchaSelectors[i] \in v.markers THEN "found"
    ELSE QuerySelectors(v, i + 1)

\* for (const text of captchaText) if (content.toLowerCase().includes(text))
\* return true: the content is lower-cased, the phrase is taken as written
TextFound(src, content) ==
    LET lowered == toLowerCase(content)
    IN \E k \in DOMAIN captchaText(src) : includes(lowered, captchaText(src)[k])

\* the body of the try block of detectCaptcha
\* (faulty variant: a matching selector does not end the call)
detectCaptchaTryTextOnly(src, v) ==
    LET q == QuerySelectors(v, 1)
    IN IF q = "throw" THEN Thrown
       ELSE IF PageOperationRaises(v, ContentRead) THEN Thrown
       ELSE Return(TextFound(src, v.content))
detectCaptchaTry(src, v) ==
    LET q == QuerySelectors(v, 1)
    IN IF q = "throw" THEN Thrown
       ELSE IF q = "found" THEN Return(TRUE)
       ELSE IF PageOperationRaises(v, ContentRead) THEN Thrown
       ELSE Return(TextFound(src, v.content))

\* detectCaptcha(): try { ... } catch (error) { return false; }
\* (faulty variant: the error is not caught)
detectCaptchaNoCatch(src, v) == detectCaptchaTry(src, v)
detectCaptcha(src, v) ==
    LET c == detectCaptchaTry(src, v)
    IN IF c.type = "throw" THEN Return(FALSE) ELSE c

(***************************************************************************)
(* The page-ready waiter and navigateToPage                                *)
(***************************************************************************)
\* await this.page.waitForTimeout(2000), in the try block and in the catch
TickDelay == 2000
\* await this.page.waitForTimeout(3000) of navigateToPage
SettleDelay == 3000
\* waitForPageReady(expectedUrlPattern, 60000) after a detected challenge
\* (also the default of maxWaitTime)
ChallengeBudget == 60000
\* waitForPageReady(expectedUrlPattern, 30000) on the wrong page
WrongPageBudget == 30000
\* waitForPageReady(`query=...`, 120000) of Capterra's findProductUrl
SearchBudget == 120000

\* One waitForPageReady call: pattern = an expectedUrlPattern was given (it
\* is truthy), tick = what the last pass through the loop body saw (ran = its
\* try block was left without an error, urlHasPattern = currentUrl.includes(
\* expectedUrlPattern)), everyTickBlocked = on every pass so far the detector
\* ran and reported a challenge.
NoTick == [ran |-> FALSE, urlHasPattern |-> FALSE]
IdleWaiter ==
    [pc |-> "idle", caller |-> "none", pattern |-> FALSE, maxWaitTime |-> 0,
     startTime |-> 0, tick |-> NoTick, everyTickBlocked |-> TRUE, result |-> FALSE]

\* console.log('Waiting for page to be ready...'); const startTime = Date.now()
waitForPageReady(caller, pattern, maxWaitTime, t) ==
    [pc |-> "polling", caller |-> caller, pattern |-> pattern,
     maxWaitTime |-> maxWaitTime, startTime |-> t, tick |-> NoTick,
     everyTickBlocked |-> TRUE, result |-> FALSE]

\* while (Date.now() - startTime < maxWaitTime)
\* (faulty variant: the loop gives up one tick before the budget is used)
StillWaitingOneTickLess(w, t) == t - w.startTime < w.maxWaitTime - TickDelay
StillWaiting(w, t) == t - w.startTime < w.maxWaitTime

\* the try block of the loop body raises: the tick delay, the URL read or the
\* detector raised (det = how the detectCaptcha call on the page v ended)
TickRaises(v, det, delayOk, urlOk) ==
    ~v.attached \/ ~delayOk \/ ~urlOk \/ det.type = "throw"

\* if (!hasCaptcha) { if (expectedUrlPattern) { if (currentUrl.includes(
\* expectedUrlPattern)) return true; } else return true; }
\* (faulty variant: the URL is not looked at)
TickReadyIgnoringUrl(w, det, urlHas) ==
    ~det.value
TickReady(w, det, urlHas) ==
    ~det.value /\ (~w.pattern \/ urlHas)

\* One pass through the loop body of waitForPageReady on the page v:
\* "ready" = return true, "again" = back to the loop condition, "throw" = the
\* waitForTimeout of the catch block raised, which nothing catches.
waitForPageReadyTick(w, v, det, delayOk, urlOk, urlHas, recoveryOk) ==
    IF TickRaises(v, det, delayOk, urlOk)
    THEN IF v.attached /\ recoveryOk THEN "again" ELSE "throw"
    ELSE IF TickReady(w, det, urlHas) THEN "ready" ELSE "again"

\* the time one pass takes: the tick delay if it did not raise, and the delay
\* of the catch block if that was entered and did not raise
TickTime(v, det, delayOk, urlOk, recoveryOk) ==
    (IF v.attached /\ delayOk THEN TickDelay ELSE 0)
    + (IF TickRaises(v, det, delayOk, urlOk) /\ v.attached /\ recoveryOk
       THEN TickDelay ELSE 0)

\* One navigateToPage call: pattern = an expectedUrlPattern was given,
\* gotoOk = page.goto and the wait after it did not raise, hasCaptcha = what
\* detectCaptcha reported after the navigation, waited = waitForPageReady was
\* called.
IdleNavigate ==
    [pc |-> "idle", pattern |-> FALSE, gotoOk |-> FALSE, hasCaptcha |-> FALSE,
     urlHasPattern |-> FALSE, waited |-> FALSE, result |-> FALSE]

\* navigateToPage after the navigation: if (hasCaptcha) waitForPageReady(
\* expectedUrlPattern, 60000); else if (expectedUrlPattern) { if (!currentUrl
\* .includes(expectedUrlPattern)) waitForPageReady(expectedUrlPattern, 30000) }
\* The budget of the wait, or 0 when navigateToPage returns true at once.
\* (faulty variant: the wait for the right page is left out)
AfterNavigationChallengeOnly(hasCaptcha, pattern, urlHas) ==
    IF hasCaptcha THEN ChallengeBudget ELSE 0
AfterNavigation(hasCaptcha, pattern, urlHas) ==
    IF hasCaptcha THEN ChallengeBudget
    ELSE IF pattern /\ ~urlHas THEN WrongPageBudget
    ELSE 0

\* no page attached (this.page is null)
NoView == View(FALSE, {}, << >>, 0)

\* no call made yet
InitPage ==
    /\ view = NoView
    /\ detector = [pc |-> "idle", result |-> FALSE]
    /\ now = 0
    /\ waiter = IdleWaiter
    /\ navigate = IdleNavigate
    /\ pageItems = << >>

(***************************************************************************)
(* scrapeReviews: the pagination loops                                     *)
(***************************************************************************)
Sources == {"g2", "capterra", "trustpilot"}

\* default of the maxPages parameter of TrustPilotScraper.scrapeReviews
DefaultMaxPages == 10

\* additional_info.source of the records a scraper builds
SourceLabel(src) ==
    CASE src = "g2" -> "G2"
      [] src = "capterra" -> "Capterra"
      [] src = "trustpilot" -> "TrustPilot"

\* the bound on consecutiveEmptyPages in the while condition of each scraper
\* (faulty variant: the same bound in every scraper)
EmptyPageThresholdUniform(src) == 3
EmptyPageThreshold(src) ==
    CASE src = "g2" -> 3
      [] src = "capterra" -> 1
      [] src = "trustpilot" -> 3

\* the while condition of scrapeReviews
\* (faulty variant: one page more than maxPages is allowed)
LoopConditionPastCap ==
    /\ hasMorePages
    /\ (maxPages = -1 \/ page <= maxPages + 1)
    /\ consecutiveEmptyPages < EmptyPageThreshold(source)
LoopCondition ==
    /\ hasMorePages
    /\ (maxPages = -1 \/ page <= maxPages)
    /\ consecutiveEmptyPages < EmptyPageThreshold(source)

\* A review element for which extractReviewData returns no record
NoRecord == "<no record>"

\* What findReviewElements + extractReviewData give for one page: a sequence
\* of elements, each yielding no record or a record with a date string.
ElementOutcomes == DateStrings \cup {NoRecord}
PageContents == UNION {[1..n -> ElementOutcomes] : n \in 0..MaxItems}
\* What the site serves for page number p: its listing has at most PageCap
\* pages with review elements, a page number beyond them gives a page without
\* any.
ListingPage(p) == IF p <= PageCap THEN PageContents ELSE {<< >>}

\* else if (reviewDate && reviewDate < startDate)
\* (faulty variant: a date parseDate did not read counts as before the window)
IsBeforeWindowOrUnparsed(reviewDate, s) == reviewDate < s
IsBeforeWindow(reviewDate, s) == reviewDate # NULL /\ reviewDate < s

\* The callback of reviewElements.each, folded over the elements of the page:
\* acc holds reviews, pageReviews and reviewsOutsideDateRange.
RECURSIVE ProcessElements(_, _, _, _, _)
ProcessElements(els, acc, s, e, src) ==
    IF els = << >> THEN acc
    ELSE LET el == Head(els) IN
         IF el = NoRecord
         THEN ProcessElements(Tail(els), acc, s, e, src)
         ELSE LET reviewDate == parseDate(el) IN
              IF isDateInRange(reviewDate, s, e)
              THEN ProcessElements(Tail(els),
                      [acc EXCEPT !.reviews = Append(@, [date |-> el, source |-> SourceLabel(src)]),
                                  !.pageReviews = @ + 1], s, e, src)
              ELSE IF IsBeforeWindow(reviewDate, s)
              THEN ProcessElements(Tail(els),
                      [acc EXCEPT !.reviewsOutsideDateRange = @ + 1], s, e, src)
              ELSE ProcessElements(Tail(els), acc, s, e, src)

\* The locals of scrapeReviews after one pass through the loop body, with a
\* note of what the pass did (kept in the variable last).
Pass(p, cep, more, revs, note) ==
    [page |-> p, consecutiveEmptyPages |-> cep, hasMorePages |-> more,
     reviews |-> revs, note |-> note]

\* what the pass did, on how many elements it ran extractReviewData, and the
\* value of its local reviewsOutsideDateRange at the end of the pass
Note(outcome, els, inWindow, outside) ==
    [outcome |-> outcome, extracted |-> els, before |-> outside]

\* the ways acquiring a page fails: safeRequest gave null; navigateToPage gave
\* false (because the challenge wait timed out, or for another reason);
\* getPageContent gave null
AcquireFailures == {"requestFailed", "navigateFailed", "navigateTimeout", "contentFailed"}

\* if (!response) / if (!navigationSuccess) / if (!htmlContent):
\* consecutiveEmptyPages++; page++; continue
\* (faulty variant: the page is skipped without counting it)
AcquireFailedNotCounted(why) ==
    Pass(page + 1, consecutiveEmptyPages, hasMorePages, reviews, Note(why, 0, 0, 0))
AcquireFailed(why) ==
    Pass(page + 1, consecutiveEmptyPages + 1, hasMorePages, reviews, Note(why, 0, 0, 0))

\* consecutiveEmptyPages = 0, before the elements of the page are filtered:
\* the counter after a page with review elements, of which inWindow turn out
\* to be in the window
\* (faulty variant: a page without a review in the window counts as empty)
CounterAfterElementsInWindow(inWindow) ==
    IF inWindow > 0 THEN 0 ELSE consecutiveEmptyPages + 1
CounterAfterElements(inWindow) == 0

\* reviewElements.length > 0: reset the counter, filter the items by date,
\* then the early-stop test
\* (faulty variant: the early stop is already allowed on the second page)
ProcessPageStopsOnSecond(els) ==
    LET acc == ProcessElements(els,
                   [reviews |-> reviews, pageReviews |-> 0, reviewsOutsideDateRange |-> 0],
                   startDate, endDate, source)
        stop == acc.reviewsOutsideDateRange > acc.pageReviews /\ page > 1
    IN Pass(IF stop THEN page ELSE page + 1, CounterAfterElements(acc.pageReviews),
            IF stop THEN FALSE ELSE hasMorePages,
            acc.reviews,
            Note(IF stop THEN "stopped" ELSE "processed", Len(els),
                 acc.pageReviews, acc.reviewsOutsideDateRange))
ProcessPage(els) ==
    LET acc == ProcessElements(els,
                   [reviews |-> reviews, pageReviews |-> 0, reviewsOutsideDateRange |-> 0],
                   startDate, endDate, source)
        stop == acc.reviewsOutsideDateRange > acc.pageReviews /\ page > 2
    IN Pass(IF stop THEN page ELSE page + 1, CounterAfterElements(acc.pageReviews),
            IF stop THEN FALSE ELSE hasMorePages,
            acc.reviews,
            Note(IF stop THEN "stopped" ELSE "processed", Len(els),
                 acc.pageReviews, acc.reviewsOutsideDateRange))

\* navigateToPage(url, expectedUrlPattern) with a pattern given: gotoOk = page.goto
\* did not throw, captcha = detectCaptcha after the navigation, onPage = the
\* current URL contains the pattern, ready = the result of waitForPageReady
navigateToPage(gotoOk, captcha, onPage, ready) ==
    IF ~gotoOk THEN FALSE
    ELSE IF captcha THEN ready
    ELSE IF ~onPage THEN ready
    ELSE TRUE

\* the challenge wait of navigateToPage timed out: a challenge was detected
\* after the navigation and waitForPageReady gave false
ChallengeTimedOut(gotoOk, captcha, ready) == gotoOk /\ captcha /\ ~ready

\* One pass through the loop body of G2Scraper.scrapeReviews and of
\* CapterraScraper.scrapeReviews (the same code; Capterra also sets the sort
\* order and expands the "Read More" buttons, which change no local).
\* nav = the inputs of navigateToPage, contentOk = getPageContent gave a
\* document, els = the page's elements, captcha = detectCaptcha on an empty
\* page, resolved = how the waitForPageReady call ended.
WaitOutcomes == {"ready", "timedOut", "raised"}
BrowserPass(nav, contentOk, els, captcha, resolved) ==
    IF ~navigateToPage(nav.gotoOk, nav.captcha, nav.onPage, nav.ready)
    THEN AcquireFailed(IF ChallengeTimedOut(nav.gotoOk, nav.captcha, nav.ready)
                       THEN "navigateTimeout" ELSE "navigateFailed")
    ELSE IF ~contentOk THEN AcquireFailed("contentFailed")
    ELSE IF Len(els) = 0
    THEN IF captcha
         THEN IF resolved = "ready"
              THEN \* retry the same page
                   Pass(page, consecutiveEmptyPages + 1, hasMorePages, reviews,
                        Note("retry", 0, 0, 0))
              ELSE \* "CAPTCHA resolution timeout, moving to next page"
                   Pass(page + 1, consecutiveEmptyPages + 1, hasMorePages, reviews,
                        Note("captchaTimeout", 0, 0, 0))
         ELSE Pass(page + 1, consecutiveEmptyPages + 1, hasMorePages, reviews,
                   Note("empty", 0, 0, 0))
    ELSE ProcessPage(els)

\* The pass ends scrapeReviews with an error, which the loop body does not
\* catch: the waitForPageReady call on an empty page raised, or, after a page
\* whose elements were processed without the early stop, the call
\* `await this.page.waitForTimeout(1000)` raised (delayOk = it did not).
BrowserPassThrows(nav, contentOk, els, captcha, resolved, delayOk) ==
    /\ navigateToPage(nav.gotoOk, nav.captcha, nav.onPage, nav.ready)
    /\ contentOk
    /\ IF Len(els) = 0
       THEN captcha /\ resolved = "raised"
       ELSE ProcessPage(els).hasMorePages /\ ~delayOk

\* the locals of such a pass when the error leaves scrapeReviews: the counter
\* was incremented before the challenge was looked for; the page's reviews
\* were pushed and the page number incremented before the delay
BrowserPassThrown(els) ==
    IF Len(els) = 0
    THEN Pass(page, consecutiveEmptyPages + 1, hasMorePages, reviews,
              Note("waitFailed", 0, 0, 0))
    ELSE [ProcessPage(els) EXCEPT !.note.outcome = "delayFailed"]

\* One pass through the loop body of TrustPilotScraper.scrapeReviews:
\* response = the result of safeRequest(pageUrl)
TrustPilotPass(response, els) ==
    IF response = NULL THEN AcquireFailed("requestFailed")
    ELSE IF Len(els) = 0
    THEN Pass(page + 1, consecutiveEmptyPages + 1, hasMorePages, reviews,
              Note("empty", 0, 0, 0))
    ELSE ProcessPage(els)

\* Every way a whole safeRequest(url, maxR) call can end when it starts at
\* attempt a with User-Agent ua: the value returned and the User-Agent left
\* in axiosConfig.
RECURSIVE SafeRequestEnds(_, _, _)
SafeRequestEnds(a, ua, maxR) ==
    IF a >= maxR THEN {[result |-> NULL, ua |-> ua]}
    ELSE UNION { LET it == Attempt(a, ua, maxR, o, 1) IN
                   IF it.returned THEN {[result |-> it.result, ua |-> it.ua]}
                   ELSE SafeRequestEnds(a + 1, it.ua, maxR) : o \in Outcomes \ {403} }
         \cup
         UNION { LET it == Attempt(a, ua, maxR, 403, r) IN
                   IF it.returned THEN {[result |-> it.result, ua |-> it.ua]}
                   ELSE SafeRequestEnds(a + 1, it.ua, maxR) : r \in RandomIndexes }

\* safeRequest(url) with the default maxRetries, per User-Agent at the call
safeRequest == [k \in RandomIndexes |-> SafeRequestEnds(0, userAgents[k], DefaultMaxRetries)]
UserAgentIndex(ua) == CHOOSE k \in RandomIndexes : userAgents[k] = ua

\* The locals after a pass, with the note of what the pass did.
Assign(next) ==
    /\ page' = next.page
    /\ consecutiveEmptyPages' = next.consecutiveEmptyPages
    /\ hasMorePages' = next.hasMorePages
    /\ reviews' = next.reviews
    /\ last' = next.note

\* the declarations before the loop: reviews = [], page = 1, hasMorePages = true,
\* consecutiveEmptyPages = 0
EnterLoop ==
    /\ pc' = "loop"
    /\ page' = 1
    /\ hasMorePages' = TRUE
    /\ consecutiveEmptyPages' = 0
    /\ reviews' = << >>
    /\ last' = [outcome |-> "none", extracted |-> 0, before |-> 0]

\* throw new Error(...) out of scrapeReviews
Throw(why) ==
    /\ pc' = "failed"
    /\ last' = [outcome |-> why, extracted |-> 0, before |-> 0]
    /\ UNCHANGED <<page, hasMorePages, consecutiveEmptyPages, reviews>>

\* G2Scraper / CapterraScraper: initializeBrowser and findProductUrl, then the
\* locals of the loop.  exe = a Chrome executable is found, started = the
\* launched Chrome comes up, nav = the search page was reached, contentOk = its
\* content was read, found = a product link was found in the results.
\* Capterra, when the search page shows no result card (cards = it shows
\* some): captcha = detectCaptcha on it, resolved = how the call
\* waitForPageReady(query, 120000) ended, which no try encloses; after
\* "ready" the content is read again, and found = it was read and shows a
\* card with a product link.
BrowserFindProductUrl(exe, started, nav, contentOk, cards, captcha, resolved, found) ==
    /\ pc = "start"
    /\ source \in BrowserSources
    /\ LET named == validateCompanyName(options.company).type = "return"
           st == AcquireSession(SessionState(chrome, session[source], sessionLog, TRUE),
                                source, exe, started, named)
       IN
        /\ chrome' = st.chrome
        /\ session' = [session EXCEPT ![source] = st.fields]
        /\ sessionLog' = st.log
        /\ IF ~st.ok
           THEN /\ navigations' = navigations
                /\ Throw("noBrowser")
           ELSE IF ~named
           THEN /\ navigations' = navigations
                /\ Throw("invalidCompany")
           ELSE /\ navigations' = navigations \cup {NavigationHandle(source, st.fields)}
                /\ IF ~nav THEN Throw("searchFailed")
                   ELSE IF ~contentOk THEN Throw("searchContentFailed")
                   ELSE IF source = "capterra" /\ ~cards
                   THEN IF captcha /\ resolved = "raised" THEN Throw("waitFailed")
                        ELSE IF captcha /\ resolved = "ready" /\ found THEN EnterLoop
                        ELSE Throw("productNotFound")
                   ELSE IF ~found THEN Throw("productNotFound")
                   ELSE EnterLoop
    /\ UNCHANGED <<source, startDate, endDate, maxPages, userAgent>>
    /\ UNCHANGED srVars
    /\ UNCHANGED inFlight
    /\ UNCHANGED pageVars
    /\ UNCHANGED mainVars

\* TrustPilotScraper.findProductUrl: validateCompanyName, the search request,
\* then the first result
TrustPilotFindProductUrl(end, found) ==
    /\ pc = "start"
    /\ source = "trustpilot"
    /\ IF validateCompanyName(options.company).type = "throw"
       THEN /\ userAgent' = userAgent
            /\ Throw("invalidCompany")
       ELSE /\ userAgent' = end.ua
            /\ IF end.result = NULL THEN Throw("searchFailed")
               ELSE IF ~found THEN Throw("productNotFound")
               ELSE EnterLoop
    /\ UNCHANGED <<source, startDate, endDate, maxPages>>
    /\ UNCHANGED srVars
    /\ UNCHANGED inFlight
    /\ UNCHANGED pageVars
    /\ UNCHANGED sessionVars
    /\ UNCHANGED mainVars

\* The top of the loop body: the while condition held, and the request for
\* the listing page (TrustPilot: await this.safeRequest(pageUrl)) or the
\* navigation to it (G2, Capterra: await this.navigateToPage(pageUrl, ...)) is
\* begun; the loop body goes on when it has ended.
\* (faulty variant: the next page is requested while one is still in flight)
IssuePagePrefetch ==
    /\ pc = "loop"
    /\ LoopCondition
    /\ Cardinality(inFlight) < 2
    /\ inFlight' = inFlight \cup {[source |-> source, page |-> page + Cardinality(inFlight)]}
    /\ UNCHANGED <<source, startDate, endDate, maxPages, pc, page, hasMorePages,
                   consecutiveEmptyPages, reviews, last, userAgent>>
    /\ UNCHANGED srVars
    /\ UNCHANGED pageVars
    /\ UNCHANGED sessionVars
    /\ UNCHANGED mainVars
IssuePage ==
    /\ pc = "loop"
    /\ LoopCondition
    /\ inFlight = {}
    /\ inFlight' = {[source |-> source, page |-> page]}
    /\ UNCHANGED <<source, startDate, endDate, maxPages, pc, page, hasMorePages,
                   consecutiveEmptyPages, reviews, last, userAgent>>
    /\ UNCHANGED srVars
    /\ UNCHANGED pageVars
    /\ UNCHANGED sessionVars
    /\ UNCHANGED mainVars

\* the rest of the loop body of G2Scraper.scrapeReviews, once the navigation
\* has ended
G2Iteration(nav, contentOk, els, captcha, resolved, delayOk) ==
    /\ pc = "loop"
    /\ inFlight # {}
    /\ source = "g2"
    /\ LoopCondition
    /\ navigations' = navigations \cup {NavigationHandle(source, session[source])}
    /\ IF BrowserPassThrows(nav, contentOk, els, captcha, resolved, delayOk)
       THEN /\ Assign(BrowserPassThrown(els))
            /\ pc' = "failed"
       ELSE /\ Assign(BrowserPass(nav, contentOk, els, captcha, resolved))
            /\ UNCHANGED pc
    /\ UNCHANGED <<source, startDate, endDate, maxPages, userAgent>>
    /\ UNCHANGED <<chrome, session, sessionLog>>
    /\ UNCHANGED srVars
    /\ inFlight' = {}
    /\ UNCHANGED pageVars
    /\ UNCHANGED mainVars

\* the rest of the loop body of CapterraScraper.scrapeReviews
CapterraIteration(nav, contentOk, els, captcha, resolved, delayOk) ==
    /\ pc = "loop"
    /\ inFlight # {}
    /\ source = "capterra"
    /\ LoopCondition
    /\ navigations' = navigations \cup {NavigationHandle(source, session[source])}
    /\ IF BrowserPassThrows(nav, contentOk, els, captcha, resolved, delayOk)
       THEN /\ Assign(BrowserPassThrown(els))
            /\ pc' = "failed"
       ELSE /\ Assign(BrowserPass(nav, contentOk, els, captcha, resolved))
            /\ UNCHANGED pc
    /\ UNCHANGED <<source, startDate, endDate, maxPages, userAgent>>
    /\ UNCHANGED <<chrome, session, sessionLog>>
    /\ UNCHANGED srVars
    /\ inFlight' = {}
    /\ UNCHANGED pageVars
    /\ UNCHANGED mainVars

\* the rest of the loop body of TrustPilotScraper.scrapeReviews, once the
\* request has ended
TrustPilotIteration(end, els) ==
    /\ pc = "loop"
    /\ inFlight # {}
    /\ source = "trustpilot"
    /\ LoopCondition
    /\ userAgent' = end.ua
    /\ Assign(TrustPilotPass(end.result, els))
    /\ UNCHANGED <<source, startDate, endDate, maxPages, pc>>
    /\ UNCHANGED srVars
    /\ inFlight' = {}
    /\ UNCHANGED pageVars
    /\ UNCHANGED sessionVars
    /\ UNCHANGED mainVars

\* the while condition is false: 'Browser left open for continued use',
\* return reviews
\* (faulty variant: the scraper closes its browser before it returns)
ScrapeReturnClosingBrowser ==
    /\ pc = "loop"
    /\ ~LoopCondition
    /\ pc' = "done"
    /\ chrome' = IF source \in BrowserSources THEN ChromeNotRunning ELSE chrome
    /\ UNCHANGED <<source, startDate, endDate, maxPages, page, hasMorePages,
                   consecutiveEmptyPages, reviews, last, userAgent>>
    /\ UNCHANGED <<session, sessionLog, navigations>>
    /\ UNCHANGED srVars
    /\ UNCHANGED inFlight
    /\ UNCHANGED pageVars
    /\ UNCHANGED mainVars
ScrapeReturn ==
    /\ pc = "loop"
    /\ ~LoopCondition
    /\ pc' = "done"
    /\ UNCHANGED <<source, startDate, endDate, maxPages, page, hasMorePages,
                   consecutiveEmptyPages, reviews, last, userAgent>>
    /\ UNCHANGED sessionVars
    /\ UNCHANGED srVars
    /\ UNCHANGED inFlight
    /\ UNCHANGED pageVars
    /\ UNCHANGED mainVars

\* scrapingResults[source] = {success, count, error}: what main records for a
\* source, in the try block once scrapeReviews has returned revs, and in the
\* catch block with the message of the error it raised
\* (faulty variant: a failed source is recorded with the reviews it had)
SourceResultKeepingCount(src, returned, revs, message) ==
    [source |-> src,
     success |-> returned,
     count |-> Len(revs),
     error |-> IF returned THEN "null" ELSE message]
SourceResult(src, returned, revs, message) ==
    [source |-> src,
     success |-> returned,
     count |-> IF returned THEN Len(revs) ELSE 0,
     error |-> IF returned THEN "null" ELSE message]

\* main, the rest of the body of `for (const source of sourcesToScrape)` once
\* scrapeReviews has returned or thrown: the reviews are pushed to allReviews
\* and the source's result is recorded (the catch records the failure), then
\* the loop goes to the next source, or ends and main turns to the output.
\* (faulty variant: a source that raised ends the loop over the sources)
MainNextSourceStopOnFailure ==
    /\ pc \in {"done", "failed"}
    /\ allReviews' = IF pc = "done" THEN allReviews \o reviews ELSE allReviews
    /\ scrapingResults' = Append(scrapingResults,
            SourceResult(source, pc = "done", reviews, last.outcome))
    /\ IF queue # << >> /\ pc = "done"
       THEN /\ source' = Head(queue)
            /\ queue' = Tail(queue)
            /\ pc' = "start"
       ELSE /\ pc' = "output"
            /\ UNCHANGED <<source, queue>>
    \* the locals of the scrapeReviews call that ended are gone
    /\ page' = 1
    /\ hasMorePages' = TRUE
    /\ consecutiveEmptyPages' = 0
    /\ reviews' = << >>
    /\ last' = [outcome |-> "none", extracted |-> 0, before |-> 0]
    /\ UNCHANGED <<startDate, endDate, maxPages, userAgent>>
    /\ UNCHANGED <<options, mainError, outputFile, exitCode>>
    /\ UNCHANGED sessionVars
    /\ UNCHANGED srVars
    /\ UNCHANGED inFlight
    /\ UNCHANGED pageVars
MainNextSource ==
    /\ pc \in {"done", "failed"}
    /\ allReviews' = IF pc = "done" THEN allReviews \o reviews ELSE allReviews
    /\ scrapingResults' = Append(scrapingResults,
            SourceResult(source, pc = "done", reviews, last.outcome))
    /\ IF queue # << >>
       THEN /\ source' = Head(queue)
            /\ queue' = Tail(queue)
            /\ pc' = "start"
       ELSE /\ pc' = "output"
            /\ UNCHANGED <<source, queue>>
    \* the locals of the scrapeReviews call that ended are gone
    /\ page' = 1
    /\ hasMorePages' = TRUE
    /\ consecutiveEmptyPages' = 0
    /\ reviews' = << >>
    /\ last' = [outcome |-> "none", extracted |-> 0, before |-> 0]
    /\ UNCHANGED <<startDate, endDate, maxPages, userAgent>>
    /\ UNCHANGED <<options, mainError, outputFile, exitCode>>
    /\ UNCHANGED sessionVars
    /\ UNCHANGED srVars
    /\ UNCHANGED inFlight
    /\ UNCHANGED pageVars

\* The environment of one step, drawn where the step is taken and only as far
\* as the code reads it: the search result is read only once the search page
\* was reached, the page's elements only once its content was read, the
\* challenge detector only on a page without elements, the waiter only after
\* a detected challenge, the delay between pages only after a page that was
\* processed without the early stop.
OnlyIf(cond, values, unread) == IF cond THEN values ELSE {unread}
NavigateCases ==
    UNION { UNION { UNION {
        {[gotoOk |-> gotoOk, captcha |-> captcha, onPage |-> onPage, ready |-> ready] :
            ready \in OnlyIf(gotoOk /\ (captcha \/ ~onPage), BOOLEAN, FALSE)} :
            onPage \in OnlyIf(gotoOk /\ ~captcha, BOOLEAN, FALSE)} :
            captcha \in OnlyIf(gotoOk, BOOLEAN, FALSE)} :
            gotoOk \in BOOLEAN}
Navigated(nav) == navigateToPage(nav.gotoOk, nav.captcha, nav.onPage, nav.ready)

\* the first attach of initializeBrowser succeeds on the Chrome as it is
Attachable == chrome.running /\ chrome.contexts > 0

FindG2OrCapterra ==
    /\ pc = "start"
    /\ source \in BrowserSources
    /\ \E exe \in OnlyIf(~Attachable, BOOLEAN, FALSE) :
       \E started \in OnlyIf(exe, BOOLEAN, FALSE) :
       \E nav \in OnlyIf(Attachable \/ (started /\ ~chrome.running),
                          {Navigated(n) : n \in NavigateCases}, FALSE) :
       \E contentOk \in OnlyIf(nav, BOOLEAN, FALSE) :
       \E cards \in OnlyIf(contentOk /\ source = "capterra", BOOLEAN, TRUE) :
       \E captcha \in OnlyIf(~cards, BOOLEAN, FALSE) :
       \E resolved \in OnlyIf(captcha, WaitOutcomes, "timedOut") :
       \E found \in OnlyIf(contentOk /\ (cards \/ resolved = "ready"), BOOLEAN, FALSE) :
           BrowserFindProductUrl(exe, started, nav, contentOk, cards, captcha, resolved, found)
FindTrustPilot ==
    /\ pc = "start"
    /\ source = "trustpilot"
    /\ \E end \in safeRequest[UserAgentIndex(userAgent)] :
       \E found \in OnlyIf(end.result # NULL, BOOLEAN, FALSE) :
           TrustPilotFindProductUrl(end, found)
IterateG2 ==
    /\ pc = "loop"
    /\ source = "g2"
    /\ inFlight # {}
    /\ \E nav \in NavigateCases :
       \E contentOk \in OnlyIf(Navigated(nav), BOOLEAN, FALSE) :
       \E els \in OnlyIf(contentOk, ListingPage(page), << >>) :
       \E captcha \in OnlyIf(contentOk /\ Len(els) = 0, BOOLEAN, FALSE) :
       \E resolved \in OnlyIf(captcha, WaitOutcomes, "timedOut") :
       \E delayOk \in OnlyIf(Len(els) > 0 /\ ProcessPage(els).hasMorePages, BOOLEAN, TRUE) :
           G2Iteration(nav, contentOk, els, captcha, resolved, delayOk)
IterateCapterra ==
    /\ pc = "loop"
    /\ source = "capterra"
    /\ inFlight # {}
    /\ \E nav \in NavigateCases :
       \E contentOk \in OnlyIf(Navigated(nav), BOOLEAN, FALSE) :
       \E els \in OnlyIf(contentOk, ListingPage(page), << >>) :
       \E captcha \in OnlyIf(contentOk /\ Len(els) = 0, BOOLEAN, FALSE) :
       \E resolved \in OnlyIf(captcha, WaitOutcomes, "timedOut") :
       \E delayOk \in OnlyIf(Len(els) > 0 /\ ProcessPage(els).hasMorePages, BOOLEAN, TRUE) :
           CapterraIteration(nav, contentOk, els, captcha, resolved, delayOk)
IterateTrustPilot ==
    /\ pc = "loop"
    /\ source = "trustpilot"
    /\ inFlight # {}
    /\ \E end \in safeRequest[UserAgentIndex(userAgent)] :
       \E els \in OnlyIf(end.result # NULL, ListingPage(page), << >>) :
           TrustPilotIteration(end, els)

\* the date windows and page caps scrapeReviews is called with
\* (windows around the sample day 2: it lies strictly inside, or on the start
\* and the end at once; the sample days 0 and 4 lie before and after)
Windows == {<<1, 3>>, <<2, 2>>}
MaxPagesArgs == {-2, -1, DefaultMaxPages} \cup 0..PageCap

\* Values of --company (required, and not validated by main): a name, a
\* name of white space alone, and ''
CompanyNames == {<< "A", "c", "m", "e" >>, << " ", " ", " " >>, << >>}

\* the output file before fs.writeFile: not there
NoFile == [written |-> FALSE, total_reviews |-> 0, reviews |-> << >>, scraping_results |-> << >>]
\* the command line of a run that is followed from the first scrapeReviews
\* call on, after main's validation
NoOptions ==
    [startDate |-> "", endDate |-> "", source |-> "", company |-> << "A", "c", "m", "e" >>]

\* no session yet, nothing collected yet, nothing written, the process runs
InitSessions ==
    /\ session = [src \in BrowserSources |-> NoSession]
    /\ sessionLog = << >>
    /\ navigations = {}
    /\ allReviews = << >>
    /\ scrapingResults = << >>
    /\ mainError = "none"
    /\ outputFile = NoFile
    /\ exitCode = NULL

InitRun ==
    /\ chrome = ChromeNotRunning
    /\ InitPage
    /\ queue = << >>
    /\ InitSessions
    /\ options = NoOptions
    /\ source = "trustpilot"
    /\ startDate = 1
    /\ endDate = 1
    /\ maxPages = 0
    /\ pc = "start"
    /\ inFlight = {}
    /\ page = 1
    /\ hasMorePages = TRUE
    /\ consecutiveEmptyPages = 0
    /\ reviews = << >>
    /\ last = [outcome |-> "none", extracted |-> 0, before |-> 0]

InitSafeRequest ==
    /\ userAgent = InitialUserAgent
    /\ srPc = "idle"
    /\ srUrl = "search"
    /\ srMaxRetries = DefaultMaxRetries
    /\ attempt = 0
    /\ srLog = << >>
    /\ srResult = NULL
    /\ InitRun

NextSafeRequest == CallSafeRequest \/ RunSafeRequest

\* A ReviewScraper instance on which safeRequest is called again and again
\* with any maxRetries and any transport behaviour.
SpecSafeRequest == InitSafeRequest /\ [][NextSafeRequest]_vars

\* The same, with every started request completing (axios resolves or
\* rejects within its 15 s timeout, every sleep timer fires).
FairSafeRequest == SpecSafeRequest /\ WF_vars(RunSafeRequest)

\* main with --source g2, capterra or trustpilot, any window and page cap,
\* beside a running Chrome with one tab
Init ==
    /\ chrome = ChromeWithTabs(<< 1 >>)
    /\ InitPage
    /\ queue = << >>
    /\ InitSessions
    /\ options \in {[NoOptions EXCEPT !.company = c] : c \in CompanyNames}
    /\ userAgent = InitialUserAgent
    /\ srPc = "idle"
    /\ srUrl = "search"
    /\ srMaxRetries = DefaultMaxRetries
    /\ attempt = 0
    /\ srLog = << >>
    /\ srResult = NULL
    /\ source \in Sources
    /\ \E w \in Windows : startDate = w[1] /\ endDate = w[2]
    /\ maxPages \in MaxPagesArgs
    /\ pc = "start"
    /\ inFlight = {}
    /\ page = 1
    /\ hasMorePages = TRUE
    /\ consecutiveEmptyPages = 0
    /\ reviews = << >>
    /\ last = [outcome |-> "none", extracted |-> 0, before |-> 0]

Next ==
    \/ FindG2OrCapterra
    \/ FindTrustPilot
    \/ IssuePage
    \/ IterateG2
    \/ IterateCapterra
    \/ IterateTrustPilot
    \/ ScrapeReturn
    \/ MainNextSource

Spec == Init /\ [][Next]_vars

\* the Chrome main can find behind the port when it starts
ChromeStates ==
    {ChromeNotRunning, ChromeWithoutContext,
     ChromeWithTabs(<< >>), ChromeWithTabs(<< 1 >>), ChromeWithTabs(<< 2, 1 >>)}

\* const sourcesToScrape = options.source === 'all' ? [...] : [options.source]
SourceOptions == Sources \cup {"all"}
sourcesToScrape(option) ==
    IF option = "all" THEN << "g2", "capterra", "trustpilot" >> ELSE << option >>

\* main with any --source ("all" included) beside any Chrome, for one window
\* and the page caps 0 and 1
InitMain ==
    /\ userAgent = InitialUserAgent
    /\ InitPage
    /\ srPc = "idle"
    /\ srUrl = "search"
    /\ srMaxRetries = DefaultMaxRetries
    /\ attempt = 0
    /\ srLog = << >>
    /\ srResult = NULL
    /\ chrome \in ChromeStates
    /\ \E option \in SourceOptions :
          /\ source = Head(sourcesToScrape(option))
          /\ queue = Tail(sourcesToScrape(option))
    /\ InitSessions
    /\ options \in {[NoOptions EXCEPT !.company = c] : c \in CompanyNames}
    /\ startDate = 1
    /\ endDate = 3
    /\ maxPages \in {0, 1}
    /\ pc = "start"
    /\ inFlight = {}
    /\ page = 1
    /\ hasMorePages = TRUE
    /\ consecutiveEmptyPages = 0
    /\ reviews = << >>
    /\ last = [outcome |-> "none", extracted |-> 0, before |-> 0]

SpecMain == InitMain /\ [][Next]_vars

\* main with --source all and --max-pages 2 beside a running Chrome with one
\* tab, for the window that is the sample day 2 alone
InitSerial ==
    /\ InitPage
    /\ userAgent = InitialUserAgent
    /\ srPc = "idle"
    /\ srUrl = "search"
    /\ srMaxRetries = DefaultMaxRetries
    /\ attempt = 0
    /\ srLog = << >>
    /\ srResult = NULL
    /\ chrome = ChromeWithTabs(<< 1 >>)
    /\ source = Head(sourcesToScrape("all"))
    /\ queue = Tail(sourcesToScrape("all"))
    /\ InitSessions
    /\ options \in {[NoOptions EXCEPT !.company = c] : c \in CompanyNames}
    /\ startDate = 2
    /\ endDate = 2
    /\ maxPages = 2
    /\ pc = "start"
    /\ inFlight = {}
    /\ page = 1
    /\ hasMorePages = TRUE
    /\ consecutiveEmptyPages = 0
    /\ reviews = << >>
    /\ last = [outcome |-> "none", extracted |-> 0, before |-> 0]

SpecSerial == InitSerial /\ [][Next]_vars

(***************************************************************************)
(* main: the command line, the output file and the exit code               *)
(***************************************************************************)
\* moment(str, 'YYYY-MM-DD', true) on the option strings of the model: the
\* day number of a zero-padded calendar date, NULL (invalid) for a date that
\* is not zero-padded, is in another format, or is not in the calendar
StrictMomentDay ==
    [ds \in {"2024-01-01", "2024-01-03"} |->
        CASE ds = "2024-01-01" -> 1
          [] ds = "2024-01-03" -> 3]
OptionDates == DOMAIN StrictMomentDay \cup {"2024-1-3", "2024-02-30", "Jan 3, 2024"}
strictMoment(str) == IF str \in DOMAIN StrictMomentDay THEN StrictMomentDay[str] ELSE NULL

\* moment() when main runs: some time on the sample day 2
Today == MomentDay["January 02, 2024"]

\* the values of --source the model passes: the valid ones, one in another
\* casing and an unknown one
SourceArgs == SourceOptions \cup {"G2", "yelp"}

\* The error main throws while it validates the options, or "none": the date
\* format, start after end, start in the future, then the source.
\* (faulty variant: the source is not validated)
ValidateWithoutSource(opts) ==
    LET s == strictMoment(opts.startDate)
        e == strictMoment(opts.endDate)
    IN IF s = NULL \/ e = NULL THEN "Invalid date format"
       ELSE IF s > e THEN "Start date must be before or equal to end date"
       ELSE IF s > Today THEN "Start date cannot be in the future"
       ELSE "none"
Validate(opts) ==
    LET s == strictMoment(opts.startDate)
        e == strictMoment(opts.endDate)
    IN IF s = NULL \/ e = NULL THEN "Invalid date format"
       ELSE IF s > e THEN "Start date must be before or equal to end date"
       ELSE IF s > Today THEN "Start date cannot be in the future"
       ELSE IF opts.source \notin SourceOptions THEN "Invalid source"
       ELSE "none"

\* main up to the loop over the sources: the options are validated; an error
\* goes to the outer catch, which ends the process with process.exit(1);
\* otherwise the window and the sources to scrape are set.
MainValidate ==
    /\ pc = "cli"
    /\ LET err == Validate(options)
       IN IF err # "none"
          THEN /\ mainError' = err
               /\ exitCode' = 1
               /\ pc' = "exited"
               /\ UNCHANGED <<source, queue, startDate, endDate>>
          ELSE /\ startDate' = strictMoment(options.startDate)
               /\ endDate' = strictMoment(options.endDate)
               /\ source' = Head(sourcesToScrape(options.source))
               /\ queue' = Tail(sourcesToScrape(options.source))
               /\ pc' = "start"
               /\ UNCHANGED <<mainError, exitCode>>
    /\ UNCHANGED <<maxPages, page, hasMorePages, consecutiveEmptyPages, reviews, last,
                   inFlight, userAgent>>
    /\ UNCHANGED <<allReviews, scrapingResults, options, outputFile>>
    /\ UNCHANGED srVars
    /\ UNCHANGED pageVars
    /\ UNCHANGED sessionVars

\* moment(review.date) of the sort comparator: a day number, or NULL (invalid)
momentOf(dateStr) == IF dateStr \in DOMAIN MomentDay THEN MomentDay[dateStr] ELSE NULL

\* (a, b) => dateB.isValid() && dateA.isValid() ? dateB.diff(dateA) : 0
compareNewestFirst(a, b) ==
    IF momentOf(b.date) # NULL /\ momentOf(a.date) # NULL
    THEN momentOf(b.date) - momentOf(a.date)
    ELSE 0

\* allReviews.sort(comparator) as the engine sorts an array of fewer than 64
\* elements: the run at the front of the array is found (and reversed when it
\* descends strictly), then each further element is put in place by a binary
\* search with the comparator.
\* the last index of the run that starts at index 1, from index idx on
RECURSIVE RunEnd(_, _, _)
RunEnd(a, descending, idx) ==
    IF idx > Len(a) THEN Len(a)
    ELSE LET order == compareNewestFirst(a[idx], a[idx - 1]) IN
         IF (descending /\ order >= 0) \/ (~descending /\ order < 0)
         THEN idx - 1
         ELSE RunEnd(a, descending, idx + 1)
Reverse(a) == [i \in 1..Len(a) |-> a[Len(a) + 1 - i]]
\* the array with its first run in order, and the length of that run
CountAndMakeRun(a) ==
    IF Len(a) < 2 THEN [array |-> a, runLength |-> Len(a)]
    ELSE LET descending == compareNewestFirst(a[2], a[1]) < 0
             runLength == RunEnd(a, descending, 3)
         IN [array |-> IF descending
                       THEN Reverse(SubSeq(a, 1, runLength)) \o SubSeq(a, runLength + 1, Len(a))
                       ELSE a,
             runLength |-> runLength]
\* the index at which pivot goes into a[left .. right-1]
RECURSIVE BinarySearch(_, _, _, _)
BinarySearch(a, pivot, left, right) ==
    IF left >= right THEN left
    ELSE LET mid == left + ((right - left) \div 2) IN
         IF compareNewestFirst(pivot, a[mid]) < 0
         THEN BinarySearch(a, pivot, left, mid)
         ELSE BinarySearch(a, pivot, mid + 1, right)
\* a[1 .. start-1] is in order; the elements from index start on are inserted
RECURSIVE BinaryInsertionSort(_, _)
BinaryInsertionSort(a, start) ==
    IF start > Len(a) THEN a
    ELSE LET pivot == a[start]
             left == BinarySearch(a, pivot, 1, start)
         IN BinaryInsertionSort(
                SubSeq(a, 1, left - 1) \o << pivot >> \o SubSeq(a, left, start - 1)
                    \o SubSeq(a, start + 1, Len(a)),
                start + 1)
\* (an array of 64 elements or more is sorted by merging runs, which is not
\* part of the model: no run of the model aggregates that many reviews)
SortNewestFirst(revs) ==
    CASE Len(revs) < 64 ->
        LET run == CountAndMakeRun(revs)
        IN BinaryInsertionSort(run.array, run.runLength + 1)

\* The code the process ends with after the loop over the sources: 1 from the
\* outer catch (failed), 1 from process.exit(1) when allReviews is empty, and
\* 0 when main returns.
\* (faulty variant: an empty result is not a failure)
ExitCodeIgnoringTotal(total, failed) == IF failed THEN 1 ELSE 0
ExitCode(total, failed) == IF failed \/ total = 0 THEN 1 ELSE 0

\* main after the loop over the sources: allReviews is sorted, the output is
\* written (writeOk = fs.writeFile did not fail), the summary is printed, and
\* the process ends.
MainOutput ==
    /\ pc = "output"
    /\ \E writeOk \in BOOLEAN :
          /\ allReviews' = SortNewestFirst(allReviews)
          /\ outputFile' = IF writeOk
                           THEN [written |-> TRUE,
                                 total_reviews |-> Len(allReviews),
                                 reviews |-> allReviews',
                                 scraping_results |-> scrapingResults]
                           ELSE outputFile
          /\ mainError' = IF writeOk THEN "none" ELSE "writeFile failed"
          /\ exitCode' = ExitCode(Len(allReviews), ~writeOk)
    /\ pc' = "exited"
    /\ UNCHANGED <<source, startDate, endDate, maxPages, page, hasMorePages,
                   consecutiveEmptyPages, reviews, last, inFlight, userAgent>>
    /\ UNCHANGED <<queue, scrapingResults, options>>
    /\ UNCHANGED srVars
    /\ UNCHANGED pageVars
    /\ UNCHANGED sessionVars

\* main from the command line, with any of the sample dates and sources and
\* --max-pages 1, beside a running Chrome with one tab
InitCli ==
    /\ InitPage
    /\ userAgent = InitialUserAgent
    /\ srPc = "idle"
    /\ srUrl = "search"
    /\ srMaxRetries = DefaultMaxRetries
    /\ attempt = 0
    /\ srLog = << >>
    /\ srResult = NULL
    /\ chrome = ChromeWithTabs(<< 1 >>)
    /\ session = [src \in BrowserSources |-> NoSession]
    /\ sessionLog = << >>
    /\ navigations = {}
    /\ allReviews = << >>
    /\ scrapingResults = << >>
    /\ mainError = "none"
    /\ outputFile = NoFile
    /\ exitCode = NULL
    /\ options \in [startDate : OptionDates, endDate : OptionDates, source : SourceArgs,
                    company : CompanyNames]
    /\ source = ""
    /\ queue = << >>
    /\ startDate = NULL
    /\ endDate = NULL
    /\ maxPages = 1
    /\ pc = "cli"
    /\ inFlight = {}
    /\ page = 1
    /\ hasMorePages = TRUE
    /\ consecutiveEmptyPages = 0
    /\ reviews = << >>
    /\ last = [outcome |-> "none", extracted |-> 0, before |-> 0]

NextCli ==
    \/ MainValidate
    \/ FindG2OrCapterra
    \/ FindTrustPilot
    \/ IssuePage
    \/ IterateG2
    \/ IterateCapterra
    \/ IterateTrustPilot
    \/ ScrapeReturn
    \/ MainNextSource
    \/ MainOutput

SpecCli == InitCli /\ [][NextCli]_vars

\* The date strings of the reviews a run has aggregated: the samples moment
\* reads with and without a format, and the one it reads only as DD/MM/YYYY
SortDates == DOMAIN MomentDay \cup DOMAIN DayFirstDay
\* the reviews a TrustPilot run can return for the window from day 0 to day 13
AggregatedReviews ==
    UNION {[1..n -> {[date |-> d, source |-> SourceLabel("trustpilot")] : d \in SortDates}] :
              n \in 0..(MaxItems + 1)}

\* main with --source trustpilot once the loop over the sources has ended:
\* scrapeReviews has returned any list of reviews of the window
InitSort ==
    /\ InitPage
    /\ userAgent = InitialUserAgent
    /\ srPc = "idle"
    /\ srUrl = "search"
    /\ srMaxRetries = DefaultMaxRetries
    /\ attempt = 0
    /\ srLog = << >>
    /\ srResult = NULL
    /\ chrome = ChromeNotRunning
    /\ session = [src \in BrowserSources |-> NoSession]
    /\ sessionLog = << >>
    /\ navigations = {}
    /\ allReviews \in AggregatedReviews
    /\ scrapingResults = << SourceResult("trustpilot", TRUE, allReviews, "") >>
    /\ mainError = "none"
    /\ outputFile = NoFile
    /\ exitCode = NULL
    /\ options = NoOptions
    /\ source = "trustpilot"
    /\ queue = << >>
    /\ startDate = 0
    /\ endDate = 13
    /\ maxPages = DefaultMaxPages
    /\ pc = "output"
    /\ inFlight = {}
    /\ page = 1
    /\ hasMorePages = TRUE
    /\ consecutiveEmptyPages = 0
    /\ reviews = << >>
    /\ last = [outcome |-> "none", extracted |-> 0, before |-> 0]

NextSort == MainOutput

SpecSort == InitSort /\ [][NextSort]_vars

\* What a page can hold for the date filter: up to MaxItems + 1 elements, each
\* giving no record or a record with one of the sample date strings (the one
\* only parseDate's format 'DD/MM/YYYY' reads included)
FilterPages ==
    UNION {[1..n -> ElementOutcomes \cup DOMAIN DayFirstDay] : n \in 1..(MaxItems + 1)}

\* The loop body of TrustPilotScraper.scrapeReviews from `consecutiveEmptyPages
\* = 0` on, for a page with review elements: the elements are filtered by
\* date, then the early-stop test (the loop bodies of G2 and Capterra do the
\* same with the same callback).
FilterReviewElements ==
    /\ pc = "loop"
    /\ source = "trustpilot"
    /\ LoopCondition
    /\ last.outcome = "none"
    /\ Len(pageItems) > 0
    /\ Assign(ProcessPage(pageItems))
    /\ UNCHANGED <<source, startDate, endDate, maxPages, pc, inFlight, userAgent>>
    /\ UNCHANGED srVars
    /\ UNCHANGED pageVars
    /\ UNCHANGED sessionVars
    /\ UNCHANGED mainVars

\* A TrustPilot run inside its loop, at the first page or at page PageCap with
\* or without reviews collected before, with the document of the page loaded
\* and its review elements found
InitFilter ==
    /\ view = NoView
    /\ detector = [pc |-> "idle", result |-> FALSE]
    /\ now = 0
    /\ waiter = IdleWaiter
    /\ navigate = IdleNavigate
    /\ pageItems \in FilterPages
    /\ userAgent = InitialUserAgent
    /\ srPc = "idle"
    /\ srUrl = "search"
    /\ srMaxRetries = DefaultMaxRetries
    /\ attempt = 0
    /\ srLog = << >>
    /\ srResult = NULL
    /\ chrome = ChromeNotRunning
    /\ queue = << >>
    /\ InitSessions
    /\ options = NoOptions
    /\ source = "trustpilot"
    /\ \E w \in Windows : startDate = w[1] /\ endDate = w[2]
    /\ maxPages = DefaultMaxPages
    /\ pc = "loop"
    /\ inFlight = {}
    /\ page \in {1, PageCap}
    /\ hasMorePages = TRUE
    /\ consecutiveEmptyPages \in {0, 2}
    /\ reviews \in {<< >>, << [date |-> "January 02, 2024", source |-> SourceLabel("trustpilot")] >>}
    /\ last = [outcome |-> "none", extracted |-> 0, before |-> 0]

NextFilter == FilterReviewElements

SpecFilter == InitFilter /\ [][NextFilter]_vars

\* main with --source all and --max-pages 2 (as SpecSerial), followed through
\* the output to the end of the process
NextOutput ==
    \/ FindG2OrCapterra
    \/ FindTrustPilot
    \/ IssuePage
    \/ IterateG2
    \/ IterateCapterra
    \/ IterateTrustPilot
    \/ ScrapeReturn
    \/ MainNextSource
    \/ MainOutput

SpecOutput == InitSerial /\ [][NextOutput]_vars

(***************************************************************************)
(* The URLs of the listing pages                                           *)
(***************************************************************************)
\* URLs are sequences of characters, as the texts of the challenge detector.
\* this.baseUrl of the three scrapers
BaseUrl(src) ==
    CASE src = "g2" ->
    << "h", "t", "t", "p", "s", ":", "/", "/", "w", "w", "w", ".", "g", "2",
       ".", "c", "o", "m" >>
      [] src = "capterra" ->
    << "h", "t", "t", "p", "s", ":", "/", "/", "w", "w", "w", ".", "c", "a",
       "p", "t", "e", "r", "r", "a", ".", "c", "o", "m" >>
      [] src = "trustpilot" ->
    << "h", "t", "t", "p", "s", ":", "/", "/", "w", "w", "w", ".", "t", "r",
       "u", "s", "t", "p", "i", "l", "o", "t", ".", "c", "o", "m" >>

\* the href of the review link in the first search result: a sample of what
\* each site's result cards carry (G2 and TrustPilot relative to the site,
\* Capterra absolute and ending in a slash)
SampleHref(src) ==
    CASE src = "g2" ->
    << "/", "p", "r", "o", "d", "u", "c", "t", "s", "/", "s", "l", "a", "c",
       "k", "/", "r", "e", "v", "i", "e", "w", "s" >>
      [] src = "capterra" ->
    << "h", "t", "t", "p", "s", ":", "/", "/", "w", "w", "w", ".", "c", "a",
       "p", "t", "e", "r", "r", "a", ".", "c", "o", "m", "/", "p", "/", "1",
       "3", "5", "0", "0", "3", "/", "S", "l", "a", "c", "k", "/" >>
      [] src = "trustpilot" ->
    << "/", "r", "e", "v", "i", "e", "w", "/", "s", "l", "a", "c", "k", ".",
       "c", "o", "m" >>

\* href.startsWith('http')
startsWith(s, t) == Len(s) >= Len(t) /\ SubSeq(s, 1, Len(t)) = t
\* s.replace(/\/$/, '')
WithoutTrailingSlash(s) ==
    IF s # << >> /\ s[Len(s)] = "/" THEN SubSeq(s, 1, Len(s) - 1) ELSE s

\* `${page}`: the decimal digits of a number n >= 0
DigitChars == << "0", "1", "2", "3", "4", "5", "6", "7", "8", "9" >>
RECURSIVE toString(_)
toString(n) ==
    IF n < 10 THEN << DigitChars[n + 1] >>
    ELSE toString(n \div 10) \o << DigitChars[(n % 10) + 1] >>

\* the product URL findProductUrl returns for the href of the review link
findProductUrl(src, href) ==
    LET absolute == IF startsWith(href, << "h", "t", "t", "p" >>) THEN href
                    ELSE BaseUrl(src) \o href
    IN IF src = "capterra"
       THEN WithoutTrailingSlash(absolute) \o
            << "/", "r", "e", "v", "i", "e", "w", "s", "/", "?", "p", "a", "g", "e",
               "=", "1" >>
       ELSE absolute

\* const pageUrl of the loop body of each scraper
pageUrl(src, productUrl, p) ==
    CASE src = "g2" ->
            productUrl \o
                << "?", "o", "r", "d", "e", "r", "=", "m", "o", "s", "t", "_", "r", "e",
                   "c", "e", "n", "t", "&", "p", "a", "g", "e", "=" >>
                \o toString(p)
      [] src = "capterra" ->
            productUrl \o << "?", "p", "a", "g", "e", "=" >> \o toString(p)
      [] src = "trustpilot" ->
            IF p = 1 THEN productUrl
            ELSE productUrl \o << "?", "p", "a", "g", "e", "=" >> \o toString(p)

\* the first index of the character c in s, or 0
RECURSIVE IndexOf(_, _, _)
IndexOf(s, c, from) ==
    IF from > Len(s) THEN 0
    ELSE IF s[from] = c THEN from
    ELSE IndexOf(s, c, from + 1)
\* s split at every character c
RECURSIVE Split(_, _)
Split(s, c) ==
    LET i == IndexOf(s, c, 1)
    IN IF i = 0 THEN << s >>
       ELSE << SubSeq(s, 1, i - 1) >> \o Split(SubSeq(s, i + 1, Len(s)), c)
\* The query parameters of a URL as the server reads them: the query is what
\* follows the first "?"; it is split at every "&", and each part at its
\* first "=" into a name and a value.
QueryOf(url) ==
    LET i == IndexOf(url, "?", 1)
    IN IF i = 0 THEN << >> ELSE SubSeq(url, i + 1, Len(url))
Parameter(part) ==
    LET i == IndexOf(part, "=", 1)
    IN IF i = 0 THEN [name |-> part, value |-> << >>]
       ELSE [name |-> SubSeq(part, 1, i - 1), value |-> SubSeq(part, i + 1, Len(part))]
searchParams(url) ==
    IF QueryOf(url) = << >> THEN << >>
    ELSE LET parts == Split(QueryOf(url), "&")
         IN [k \in 1..Len(parts) |-> Parameter(parts[k])]
\* the values of the parameters named page, in order
PageParameters(url) ==
    LET params == searchParams(url)
        RECURSIVE Values(_)
        Values(k) ==
            IF k > Len(params) THEN << >>
            ELSE (IF params[k].name = << "p", "a", "g", "e" >>
                  THEN << params[k].value >> ELSE << >>) \o Values(k + 1)
    IN Values(1)

(***************************************************************************)
(* Calls of detectCaptcha, waitForPageReady and navigateToPage             *)
(***************************************************************************)
\* a document around a text
Wrap(t) == << "<", "p", ">" >> \o t \o << "<", "/", "p", ">" >>
\* a text as written, in lower case and in upper case
Casings(t) == {t, toLowerCase(t), toUpperCase(t)}
Phrases(list) == {list[k] : k \in DOMAIN list}
\* texts without any challenge phrase: 'ok', and 'security' (a part of a phrase)
BenignTexts == {<< "o", "k" >>, << "s", "e", "c", "u", "r", "i", "t", "y" >>}
\* texts with a letter outside ASCII: 'CHEC\u212AING YOUR BROWSER' (with the
\* KELVIN SIGN), 'VER\u0130FY YOU ARE HUMAN' (with the dotted capital I) and
\* 'CAF\u00C9'
NonAsciiTexts ==
    {<< "C", "H", "E", "C", "U+212A", "I", "N", "G", " ", "Y", "O", "U", "R", " ",
        "B", "R", "O", "W", "S", "E", "R" >>,
     << "V", "E", "R", "U+0130", "F", "Y", " ", "Y", "O", "U", " ", "A", "R", "E", " ",
        "H", "U", "M", "A", "N" >>,
     << "C", "A", "F", "U+00C9" >>}
\* the documents a page can show: every phrase of either list in three
\* casings, the benign texts, the texts with letters outside ASCII, and the
\* empty document
Documents ==
    {Wrap(c) : c \in UNION {Casings(ph) :
                   ph \in Phrases(G2CaptchaText) \cup Phrases(CapterraCaptchaText)}}
    \cup {Wrap(t) : t \in BenignTexts}
    \cup {Wrap(t) : t \in NonAsciiTexts}
    \cup {<< >>}
\* the markers a page can have: none, any single one, or two
MarkerSets ==
    {{}} \cup {{captchaSelectors[i]} : i \in DOMAIN captchaSelectors}
         \cup {{captchaSelectors[4], captchaSelectors[9]}}
DetectorViews ==
    {View(TRUE, m, d, f) : m \in MarkerSets, d \in Documents, f \in 0..ContentRead}
    \cup {NoView}

\* The pages a tick of the waiter or a navigation can meet: no challenge; a
\* challenge widget; a challenge phrase in lower case; the phrase 'Verifying
\* you are human. This may take a few seconds.' as written; a page whose
\* content cannot be read; no page.
TickViews ==
    {View(TRUE, {}, Wrap(<< "o", "k" >>), 0),
     View(TRUE, {captchaSelectors[4]}, Wrap(<< "o", "k" >>), 0),
     View(TRUE, {}, Wrap(G2CaptchaText[1]), 0),
     View(TRUE, {}, Wrap(G2CaptchaText[8]), 0),
     View(TRUE, {}, << >>, ContentRead),
     NoView}
\* every such page with how a detectCaptcha call of the scraper src on it ends
Detected(src) == {[v |-> v, det |-> detectCaptcha(src, v)] : v \in TickViews}
\* the maxWaitTime arguments the code passes
MaxWaitTimes == {WrongPageBudget, ChallengeBudget, SearchBudget}

\* const hasCaptcha = await this.detectCaptcha()
DetectCaptchaCall ==
    /\ detector.pc = "idle"
    /\ LET c == detectCaptcha(source, view)
       IN detector' = [pc |-> IF c.type = "throw" THEN "raised" ELSE "returned",
                       result |-> c.value]
    /\ UNCHANGED <<view, now, waiter, navigate, pageItems, userAgent>>
    /\ UNCHANGED scrapeVars
    /\ UNCHANGED srVars
    /\ UNCHANGED sessionVars
    /\ UNCHANGED mainVars

\* a waitForPageReady call with any arguments (scrapeReviews calls it with
\* a pattern and 60000, Capterra's findProductUrl with a pattern and 120000)
WaitForPageReadyCall ==
    /\ waiter.pc = "idle"
    /\ navigate.pc = "idle"
    /\ \E pattern \in BOOLEAN : \E maxWaitTime \in MaxWaitTimes :
          waiter' = waitForPageReady(IF maxWaitTime = SearchBudget
                                     THEN "findProductUrl" ELSE "scrapeReviews",
                                     pattern, maxWaitTime, now)
    /\ UNCHANGED <<view, detector, now, navigate, pageItems, userAgent>>
    /\ UNCHANGED scrapeVars
    /\ UNCHANGED srVars
    /\ UNCHANGED sessionVars
    /\ UNCHANGED mainVars

\* one pass through the loop body of waitForPageReady: the page v is what the
\* tab shows once the tick delay is over
WaitTick ==
    /\ waiter.pc = "polling"
    /\ StillWaiting(waiter, now)
    /\ \E seen \in Detected(source) :
       \E delayOk \in OnlyIf(seen.v.attached, BOOLEAN, FALSE) :
       \E urlOk \in OnlyIf(delayOk, BOOLEAN, TRUE) :
       \E urlHas \in OnlyIf(waiter.pattern /\ ~TickRaises(seen.v, seen.det, delayOk, urlOk),
                            BOOLEAN, FALSE) :
       \E recoveryOk \in OnlyIf(seen.v.attached /\ TickRaises(seen.v, seen.det, delayOk, urlOk),
                                BOOLEAN, FALSE) :
          LET v == seen.v
              det == seen.det
              out == waitForPageReadyTick(waiter, v, det, delayOk, urlOk, urlHas, recoveryOk)
              ran == ~TickRaises(v, det, delayOk, urlOk)
          IN /\ view' = v
             /\ now' = now + TickTime(v, det, delayOk, urlOk, recoveryOk)
             /\ waiter' = [waiter EXCEPT
                    !.pc = IF out = "ready" THEN "returned"
                           ELSE IF out = "throw" THEN "raised" ELSE "polling",
                    !.result = (out = "ready"),
                    !.tick = [ran |-> ran, urlHasPattern |-> urlHas],
                    !.everyTickBlocked = @ /\ ran /\ det.value]
    /\ UNCHANGED <<detector, navigate, pageItems, userAgent>>
    /\ UNCHANGED scrapeVars
    /\ UNCHANGED srVars
    /\ UNCHANGED sessionVars
    /\ UNCHANGED mainVars

\* the while condition is false: 'Wait timeout reached', return false
WaitTimeout ==
    /\ waiter.pc = "polling"
    /\ ~StillWaiting(waiter, now)
    /\ waiter' = [waiter EXCEPT !.pc = "returned", !.result = FALSE]
    /\ UNCHANGED <<view, detector, now, navigate, pageItems, userAgent>>
    /\ UNCHANGED scrapeVars
    /\ UNCHANGED srVars
    /\ UNCHANGED sessionVars
    /\ UNCHANGED mainVars

\* navigateToPage(url, expectedUrlPattern) up to its return or to its call
\* of waitForPageReady: goto, the wait after it, detectCaptcha, the URL test.
\* An error of any of them is caught: return false.
NavigateToPageCall ==
    /\ navigate.pc = "idle"
    /\ waiter.pc = "idle"
    /\ \E pattern \in BOOLEAN :
       \E met \in Detected(source) :
       \E gotoOk \in OnlyIf(met.v.attached, BOOLEAN, FALSE) :
       \E settleOk \in OnlyIf(gotoOk, BOOLEAN, FALSE) :
       \E urlHas \in OnlyIf(settleOk /\ pattern, BOOLEAN, FALSE) :
          LET v == met.v
              det == met.det
              ok == gotoOk /\ settleOk /\ det.type = "return"
              budget == AfterNavigation(det.value, pattern, urlHas)
              seen == [pc |-> "returned", pattern |-> pattern, gotoOk |-> gotoOk /\ settleOk,
                       hasCaptcha |-> ok /\ det.value, urlHasPattern |-> urlHas,
                       waited |-> FALSE, result |-> FALSE]
          IN /\ view' = v
             /\ now' = now + (IF settleOk THEN SettleDelay ELSE 0)
             /\ IF ~ok
                THEN /\ navigate' = seen
                     /\ UNCHANGED waiter
                ELSE IF budget > 0
                THEN /\ navigate' = [seen EXCEPT !.pc = "waiting", !.waited = TRUE]
                     /\ waiter' = waitForPageReady("navigateToPage", pattern, budget, now')
                ELSE /\ navigate' = [seen EXCEPT !.result = TRUE]
                     /\ UNCHANGED waiter
    /\ UNCHANGED <<detector, pageItems, userAgent>>
    /\ UNCHANGED scrapeVars
    /\ UNCHANGED srVars
    /\ UNCHANGED sessionVars
    /\ UNCHANGED mainVars

\* navigateToPage once its waitForPageReady call has ended: if (!ready)
\* return false, else return true; an error of the call is caught: return false
\* (faulty variant: an error of the waitForPageReady call is not caught)
NavigateToPageReturnUncaught ==
    /\ navigate.pc = "waiting"
    /\ waiter.pc \in {"returned", "raised"}
    /\ navigate' = [navigate EXCEPT !.pc = IF waiter.pc = "raised" THEN "raised" ELSE "returned",
                                    !.result = (waiter.pc = "returned" /\ waiter.result)]
    /\ UNCHANGED <<view, detector, now, waiter, pageItems, userAgent>>
    /\ UNCHANGED scrapeVars
    /\ UNCHANGED srVars
    /\ UNCHANGED sessionVars
    /\ UNCHANGED mainVars
NavigateToPageReturn ==
    /\ navigate.pc = "waiting"
    /\ waiter.pc \in {"returned", "raised"}
    /\ navigate' = [navigate EXCEPT !.pc = "returned",
                                    !.result = (waiter.pc = "returned" /\ waiter.result)]
    /\ UNCHANGED <<view, detector, now, waiter, pageItems, userAgent>>
    /\ UNCHANGED scrapeVars
    /\ UNCHANGED srVars
    /\ UNCHANGED sessionVars
    /\ UNCHANGED mainVars

\* a G2 or Capterra scraper beside a running Chrome, nothing called yet
InitBrowserScraper ==
    /\ userAgent = InitialUserAgent
    /\ srPc = "idle"
    /\ srUrl = "search"
    /\ srMaxRetries = DefaultMaxRetries
    /\ attempt = 0
    /\ srLog = << >>
    /\ srResult = NULL
    /\ chrome = ChromeWithTabs(<< 1 >>)
    /\ queue = << >>
    /\ InitSessions
    /\ options = NoOptions
    /\ source \in BrowserSources
    /\ startDate = 1
    /\ endDate = 1
    /\ maxPages = 0
    /\ pc = "start"
    /\ inFlight = {}
    /\ page = 1
    /\ hasMorePages = TRUE
    /\ consecutiveEmptyPages = 0
    /\ reviews = << >>
    /\ last = [outcome |-> "none", extracted |-> 0, before |-> 0]
    /\ detector = [pc |-> "idle", result |-> FALSE]
    /\ now = 0
    /\ waiter = IdleWaiter
    /\ navigate = IdleNavigate
    /\ pageItems = << >>

\* One detectCaptcha call of either browser scraper on any page.
InitDetector ==
    /\ InitBrowserScraper
    /\ view \in DetectorViews
NextDetector == DetectCaptchaCall
SpecDetector == InitDetector /\ [][NextDetector]_vars

\* One waitForPageReady call, made directly or by one navigateToPage call, of
\* either browser scraper, on a tab that shows any page at every tick.
InitWaiter ==
    /\ InitBrowserScraper
    /\ view \in TickViews
NextWaiter ==
    \/ WaitForPageReadyCall
    \/ NavigateToPageCall
    \/ WaitTick
    \/ WaitTimeout
    \/ NavigateToPageReturn
SpecWaiter == InitWaiter /\ [][NextWaiter]_vars

\* The rest of the loop body of G2Scraper.scrapeReviews and of
\* CapterraScraper.scrapeReviews once the navigateToPage call for the listing
\* page has returned: `if (!navigationSuccess)` with what the call returned,
\* then the content, the elements and the filter as in every pass.  A call
\* whose waitForPageReady raised left its try block by the catch, as one whose
\* page.goto raised: 'Navigation failed'.
IterateAfterNavigation ==
    /\ navigate.pc = "returned"
    /\ LET nav == [gotoOk |-> navigate.gotoOk /\ ~(navigate.waited /\ waiter.pc = "raised"),
                   captcha |-> navigate.hasCaptcha,
                   onPage |-> ~navigate.waited,
                   ready |-> navigate.result]
       IN \E contentOk \in OnlyIf(navigate.result, BOOLEAN, FALSE) :
          \E els \in OnlyIf(contentOk, ListingPage(page), << >>) :
          \E captcha \in OnlyIf(contentOk /\ Len(els) = 0, BOOLEAN, FALSE) :
          \E resolved \in OnlyIf(captcha, WaitOutcomes, "timedOut") :
          \E delayOk \in OnlyIf(Len(els) > 0 /\ ProcessPage(els).hasMorePages, BOOLEAN, TRUE) :
             IF source = "g2"
             THEN G2Iteration(nav, contentOk, els, captcha, resolved, delayOk)
             ELSE CapterraIteration(nav, contentOk, els, captcha, resolved, delayOk)

\* A G2 or Capterra run with --max-pages 2 at the top of its loop body for
\* page 2, attached to the tab of a running Chrome by the session acquisition
\* of scrapeReviews (Capterra: both initializeBrowser calls), with one review
\* of page 1 collected; the tab shows any page, or is gone (then every page
\* operation raises).
InitNavigate ==
    /\ userAgent = InitialUserAgent
    /\ srPc = "idle"
    /\ srUrl = "search"
    /\ srMaxRetries = DefaultMaxRetries
    /\ attempt = 0
    /\ srLog = << >>
    /\ srResult = NULL
    /\ source \in BrowserSources
    /\ LET st == AcquireSession(
                    SessionState(ChromeWithTabs(<< 1 >>), NoSession, << >>, TRUE),
                    source, FALSE, FALSE, TRUE)
       IN /\ chrome = st.chrome
          /\ session = [src \in BrowserSources |-> IF src = source THEN st.fields ELSE NoSession]
          /\ sessionLog = st.log
          /\ navigations = {NavigationHandle(source, st.fields)}
    /\ queue = << >>
    /\ allReviews = << >>
    /\ scrapingResults = << >>
    /\ mainError = "none"
    /\ outputFile = NoFile
    /\ exitCode = NULL
    /\ options = NoOptions
    /\ startDate = 1
    /\ endDate = 3
    /\ maxPages = 2
    /\ pc = "loop"
    /\ page = 2
    /\ inFlight = {[source |-> source, page |-> 2]}
    /\ hasMorePages = TRUE
    /\ consecutiveEmptyPages = 0
    /\ reviews = << [date |-> "January 02, 2024", source |-> SourceLabel(source)] >>
    /\ last = [outcome |-> "processed", extracted |-> 1, before |-> 0]
    /\ view \in TickViews
    /\ detector = [pc |-> "idle", result |-> FALSE]
    /\ now = 0
    /\ waiter = IdleWaiter
    /\ navigate = IdleNavigate
    /\ pageItems = << >>

NextNavigate ==
    \/ NavigateToPageCall
    \/ WaitTick
    \/ WaitTimeout
    \/ NavigateToPageReturn
    \/ IterateAfterNavigation

SpecNavigate == InitNavigate /\ [][NextNavigate]_vars

(***************************************************************************)
(* Properties of safeRequest (checked under SpecSafeRequest)               *)
(***************************************************************************)
\* the outcomes of the requests of the current call, in order
LogOutcomes == [i \in 1..Len(srLog) |-> srLog[i].outcome]
\* the backoff waits of the current call, in order
BackoffWaits == SelectSeq([i \in 1..Len(srLog) |-> srLog[i].wait], LAMBDA w : w > 0)
\* an error that is none of 429, 403, 404
IsOtherError(outcome) == ~Resolves(outcome) /\ outcome \notin {429, 403, 404}

\* C2: with maxRetries = 3, the answers 429, 429, 200 give exactly three
\* requests, exactly two backoff waits, 2000 ms then 4000 ms, and the 200
\* response as the result.
C2_TwoRateLimitsThenSuccess ==
    (srMaxRetries = DefaultMaxRetries /\ Len(srLog) >= 3
        /\ SubSeq(LogOutcomes, 1, 3) = <<429, 429, 200>>)
    => /\ Len(srLog) = 3
       /\ srPc = "returned"
       /\ srResult = 200
       /\ BackoffWaits = <<2000, 4000>>
       /\ BackoffWaits[1] < BackoffWaits[2]

C2_Witness ==
    /\ srMaxRetries = DefaultMaxRetries
    /\ LogOutcomes = <<429, 429, 200>>
    /\ srPc = "returned"

\* C3: a 404 at any attempt ends the call at once with the failure result: it
\* is the last request of the call and no backoff wait follows it.
C3_NotFoundReturnsAtOnce ==
    \A i \in 1..Len(srLog) :
        srLog[i].outcome = 404
        => /\ i = Len(srLog)
           /\ srLog[i].wait = 0
           /\ srPc = "returned"
           /\ srResult = NULL

C3_Witness ==
    /\ Len(srLog) = 2
    /\ srMaxRetries = 4
    /\ srLog[1].outcome = 403
    /\ srLog[2].outcome = 404

\* C4: every 2xx response is returned at once as the result of the call: no
\* request follows it and the call does not end with the failure result.
C4_Every2xxIsReturned ==
    \A i \in 1..Len(srLog) :
        Resolves(srLog[i].outcome)
        => /\ i = Len(srLog)
           /\ srPc = "returned"
           /\ srResult = srLog[i].outcome

\* C5: after a 403 the User-Agent of the next request (the header in effect
\* when no request followed yet) is in the pool and differs from the
\* User-Agent of the request that got the 403.
C5_RotationChangesUserAgent ==
    \A i \in 1..Len(srLog) :
        srLog[i].outcome = 403
        => LET next == IF i < Len(srLog) THEN srLog[i + 1].ua ELSE userAgent IN
            /\ \E k \in 1..Len(userAgents) : next = userAgents[k]
            /\ next # srLog[i].ua

\* C6 as claimed: a 429 at any attempt index a is followed by a wait of
\* 2^a * 2000 ms and then by another request for the same URL, the last
\* attempt index included.
C6_EveryRateLimitIsRetried ==
    \A i \in 1..Len(srLog) :
        srLog[i].outcome = 429
        => /\ srLog[i].wait = Pow2(i - 1) * 2000
           /\ srPc = "returned" => i < Len(srLog)
           /\ i < Len(srLog) => srLog[i + 1].url = srLog[i].url

\* C6 as amended: a 429 at attempt index a is followed by a wait of
\* 2^a * 2000 ms; for a < maxRetries-1 another request for the same URL
\* follows, and for a = maxRetries-1 the call returns the failure result
\* after the wait without another request.
C6_RateLimitRetriedWhileAttemptsRemain ==
    \A i \in 1..Len(srLog) :
        srLog[i].outcome = 429
        => /\ srLog[i].wait = Pow2(i - 1) * 2000
           /\ i < Len(srLog) => srLog[i + 1].url = srLog[i].url
           /\ IF i - 1 < srMaxRetries - 1
              THEN srPc = "returned" => i < Len(srLog)
              ELSE /\ i = Len(srLog)
                   /\ srPc = "returned"
                   /\ srResult = NULL

C6_Witness ==
    /\ srMaxRetries = DefaultMaxRetries
    /\ LogOutcomes = <<429, 429, 429>>
    /\ BackoffWaits = <<2000, 4000, 8000>>
    /\ srPc = "returned"
    /\ srResult = NULL

\* C7: an error that is none of 429, 403, 404 (a missing response included)
\* at attempt a < maxRetries-1 is followed by one wait of 2000*(a+1) ms and a
\* retry; at a = maxRetries-1 the call returns the failure result with no
\* further wait or request.
C7_OtherErrors ==
    \A i \in 1..Len(srLog) :
        IsOtherError(srLog[i].outcome)
        => IF i - 1 < srMaxRetries - 1
           THEN /\ srLog[i].wait = 2000 * i
                /\ srPc = "returned" => i < Len(srLog)
           ELSE /\ srLog[i].wait = 0
                /\ i = Len(srLog)
                /\ srPc = "returned"
                /\ srResult = NULL

C7_Witness ==
    /\ srMaxRetries = DefaultMaxRetries
    /\ LogOutcomes = <<NoResponse, 500, 500>>
    /\ BackoffWaits = <<2000, 4000>>
    /\ srPc = "returned"

\* C8: one call issues at most maxRetries requests, for any maxRetries >= 0;
\* its attempt counter counts the requests of this call only (it starts at 0
\* whatever earlier calls did); the call ends with a response or the failure
\* result; and every call that started does end.
C8_CallIsBounded ==
    /\ Len(srLog) <= srMaxRetries
    /\ srPc = "running" => attempt = Len(srLog) /\ attempt < srMaxRetries
    /\ srPc = "returned" => srResult \in {NULL, 200}
    /\ srPc = "returned" /\ srResult = NULL /\ srMaxRetries = 0 => srLog = << >>

C8_BoundedAndTerminates ==
    /\ []C8_CallIsBounded
    /\ (srPc = "running") ~> (srPc = "returned")

C8_Witness ==
    /\ srPc = "returned"
    /\ srMaxRetries = 4
    /\ Len(srLog) = 4
    /\ srResult = NULL
    /\ userAgent # InitialUserAgent

(***************************************************************************)
(* Properties of scrapeReviews (checked under Spec)                        *)
(***************************************************************************)
\* a step that is one pass through the loop body (every such pass changes the
\* page number, the empty-page counter or hasMorePages)
IterationStep ==
    /\ pc = "loop"
    /\ pc' = "loop"
    /\ <<page, consecutiveEmptyPages, hasMorePages>>' # <<page, consecutiveEmptyPages, hasMorePages>>

\* C1: every item of the list scrapeReviews builds and returns has a date
\* that parseDate parses, and that date lies in [startDate, endDate].
C1_ReviewsAreInWindow ==
    \A i \in 1..Len(reviews) :
        LET d == parseDate(reviews[i].date) IN
            /\ d # NULL
            /\ startDate <= d
            /\ d <= endDate

C1_Witness ==
    /\ pc = "done"
    /\ Len(reviews) >= 2
    /\ startDate < endDate
    /\ last.outcome = "stopped"

\* C9 as claimed: a pass through the loop body starts only while the
\* consecutive-empty-page counter is below 3 for TrustPilot and below 1 for
\* G2 and Capterra.
C9_SessionSourcesStopAfterOneEmptyPage ==
    [][IterationStep =>
          consecutiveEmptyPages < (IF source = "trustpilot" THEN 3 ELSE 1)]_vars

\* C9 as amended: a pass through the loop body starts only while the counter
\* is below 3 for TrustPilot and for G2 and below 1 for Capterra; Capterra's
\* counter is at least 1 after an empty or failed page, so that Capterra
\* fetches no page after it.
C9_ThresholdPerSource ==
    [][IterationStep =>
          /\ consecutiveEmptyPages < (IF source = "capterra" THEN 1 ELSE 3)
          /\ (last'.outcome \in AcquireFailures \cup {"empty", "retry", "captchaTimeout"}
                => consecutiveEmptyPages' = consecutiveEmptyPages + 1)]_vars

C9_Witness ==
    /\ source = "capterra"
    /\ pc = "done"
    /\ last.outcome = "empty"
    /\ consecutiveEmptyPages = 1
    /\ page = 2
    /\ maxPages = 3

\* C10: a pass in which acquiring the page fails (safeRequest gave null,
\* navigateToPage gave false, getPageContent gave null) adds exactly 1 to the
\* counter and to the page number, runs no extraction and leaves the
\* accumulated reviews as they were.
C10_FailedAcquisition ==
    [][(IterationStep /\ last'.outcome \in AcquireFailures) =>
          /\ consecutiveEmptyPages' = consecutiveEmptyPages + 1
          /\ page' = page + 1
          /\ last'.extracted = 0
          /\ reviews' = reviews
          /\ hasMorePages' = hasMorePages]_vars

C10_Witness ==
    /\ source = "g2"
    /\ last.outcome = "contentFailed"
    /\ Len(reviews) > 0
    /\ page = 3
    /\ consecutiveEmptyPages = 1

\* C11: a pass halts pagination (hasMorePages becomes false) exactly when its
\* page number p is above 2 and the items of p dated strictly before the window
\* start outnumber the in-window items of p; a halting pass leaves the page
\* number at p, any other pass leaves hasMorePages as it was; and once
\* pagination is halted the only step left is the return: no further page is
\* fetched and nothing is added to the reviews.
C11_EarlyStop ==
    [][/\ IterationStep =>
            LET inWindow == Len(reviews') - Len(reviews) IN
               /\ hasMorePages' = ~(page > 2 /\ last'.before > inWindow)
               /\ (~hasMorePages' => page' = page /\ last'.outcome = "stopped")
               /\ (page <= 2 => hasMorePages')
       /\ (pc = "loop" /\ ~hasMorePages) =>
               /\ pc' = "done"
               /\ page' = page
               /\ reviews' = reviews]_vars

\* pages 1 and 2 entirely in the window, page 3 entirely before its start:
\* the run halted at page 3 and returned
C11_Witness ==
    /\ pc = "done"
    /\ maxPages = -1
    /\ page = 3
    /\ ~hasMorePages
    /\ Len(reviews) = 2 * MaxItems
    /\ last.outcome = "stopped"
    /\ last.extracted = MaxItems
    /\ last.before = MaxItems

\* C12: a TrustPilot run with the default page cap whose pages 1, 2 and 3 were
\* all full and entirely in the window never asks for page 4: when it comes
\* to page 4 with all the items of three full pages collected, its loop ends.
C12_NoFourthPage ==
    (/\ source = "trustpilot"
     /\ maxPages = DefaultMaxPages
     /\ pc = "loop"
     /\ page = 4
     /\ Len(reviews) = 3 * MaxItems)
    => ~LoopCondition

\* C13 (for maxPages = -1, where the while condition does not read the page
\* number): the pagination loop of every scraper ends whatever the site
\* returns, so that no pass beyond page 2 (from where on the loop body does
\* not read the page number either) leaves the loop as far from its end as
\* it was: every such pass raises, halts pagination, or changes the counter
\* of empty pages.  A pass that does none of these can be repeated by the
\* site at every later page number, for ever.
C13_LoopTerminates ==
    [][(/\ IterationStep
        /\ maxPages = -1
        /\ page > 2)
       => <<hasMorePages, consecutiveEmptyPages>>' # <<hasMorePages, consecutiveEmptyPages>>]_vars

\* C14: when the challenge wait for page p of a G2 or Capterra run times out
\* (in navigateToPage, or on a page without review elements) and p+1 is within
\* the page cap, the run goes on to page p+1: the page number becomes p+1 and
\* the loop continues.
C14_TimeoutAdvances ==
    [][(/\ IterationStep
        /\ source \in {"g2", "capterra"}
        /\ last'.outcome \in {"navigateTimeout", "captchaTimeout"}
        /\ (maxPages = -1 \/ page + 1 <= maxPages))
       => (page' = page + 1 /\ LoopCondition')]_vars

(***************************************************************************)
(* Properties of the browser session (checked under Spec and SpecMain)     *)
(***************************************************************************)
\* the positions of the log at which scraper src did op
LogPositions(src, op) ==
    {i \in DOMAIN sessionLog : sessionLog[i].source = src /\ sessionLog[i].op = op}
\* the number of attaches of scraper src that succeeded
OkAttaches(src) ==
    Cardinality({i \in LogPositions(src, "attach") : sessionLog[i].ok})
\* the number of pages scraper src created
NewPages(src) == Cardinality(LogPositions(src, "newPage"))

\* C15: a scraper attaches to the browser at most once in a scrapeReviews
\* run: an initializeBrowser call on a scraper that already holds a session
\* performs no new attach.
C15_AttachesAtMostOnce ==
    \A src \in BrowserSources : OkAttaches(src) <= 1

\* C16: all navigations of one scraper (the search page and every listing
\* page) go to one and the same page handle, which is the scraper's this.page
\* on its this.browser connection, and no pass through the loop body
\* reassigns this.page or this.browser.
C16_HandleKept ==
    /\ \A n1 \in navigations : \A n2 \in navigations :
          n1.source = n2.source => n1.page = n2.page
    /\ \A n \in navigations :
          /\ n.page # NoPage
          /\ n.page = session[n.source].page
          /\ n.page.connection = session[n.source].browser

C16_SameHandleForEveryNavigation ==
    /\ []C16_HandleKept
    /\ [][(pc = "loop" /\ pc' = "loop") => session' = session]_vars

\* the search page, page 1, page 2 and page 3 of G2 were navigated to
C16_Witness ==
    /\ source = "g2"
    /\ pc = "loop"
    /\ page = 4
    /\ Len(reviews) > 0
    /\ Cardinality(navigations) = 1

\* the steps of the initializeBrowser call that starts at position j of the
\* log, each as <<operation, outcome>> (the outcome of a launch is left out)
CallSteps(j) ==
    LET later == {k \in (j + 1)..Len(sessionLog) : sessionLog[k].op = "initializeBrowser"}
        end == IF later = {} THEN Len(sessionLog)
               ELSE (CHOOSE k \in later : \A m \in later : k <= m) - 1
    IN [k \in 1..(end - j) |->
          LET e == sessionLog[j + k] IN
          << e.op, IF e.op \in {"attach", "locate"} THEN e.ok ELSE TRUE >>]

\* the courses an initializeBrowser call may take
AllowedCalls ==
    { << <<"attach", TRUE>> >>,
      << <<"attach", TRUE>>, <<"newPage", TRUE>> >>,
      << <<"attach", FALSE>>, <<"locate", FALSE>>, <<"throw", TRUE>> >>,
      << <<"attach", FALSE>>, <<"locate", TRUE>>, <<"launch", TRUE>>, <<"attach", TRUE>> >>,
      << <<"attach", FALSE>>, <<"locate", TRUE>>, <<"launch", TRUE>>, <<"attach", TRUE>>,
         <<"newPage", TRUE>> >>,
      << <<"attach", FALSE>>, <<"locate", TRUE>>, <<"launch", TRUE>>, <<"attach", FALSE>>,
         <<"throw", TRUE>> >> }

\* the results main recorded for source src
ResultsOf(src) ==
    {scrapingResults[i] : i \in {k \in DOMAIN scrapingResults : scrapingResults[k].source = src}}

\* C17: every initializeBrowser call attaches first; it locates an executable
\* only after that attach failed, launches only if one was found, then
\* attaches exactly once more; it throws exactly when no attach succeeded.
\* A scraper whose call threw navigates nowhere and contributes no review:
\* its run has failed, and main records the failure with count 0.
C17_AttachLaunchAttach ==
    /\ \A j \in DOMAIN sessionLog :
          sessionLog[j].op = "initializeBrowser" => CallSteps(j) \in AllowedCalls
    /\ \A src \in BrowserSources :
          LogPositions(src, "throw") # {}
          => /\ \A n \in navigations : n.source # src
             /\ \A i \in DOMAIN allReviews : allReviews[i].source # SourceLabel(src)
             /\ \/ source = src /\ pc = "failed" /\ reviews = << >> /\ last.outcome = "noBrowser"
                \/ /\ ResultsOf(src) # {}
                   /\ \A r \in ResultsOf(src) :
                         ~r.success /\ r.count = 0 /\ r.error = "noBrowser"

\* G2 found no Chrome and could not start one; Capterra then started one,
\* attached to it and scraped
C17_Witness ==
    /\ pc = "output"
    /\ LogPositions("g2", "throw") # {}
    /\ \E i \in LogPositions("g2", "launch") : ~sessionLog[i].ok
    /\ \E i \in LogPositions("capterra", "launch") : sessionLog[i].ok
    /\ \E n \in navigations : n.source = "capterra"
    /\ Len(allReviews) > 0

\* C18: the tab the G2 scraper navigates is never the tab the Capterra scraper
\* navigates.
C18_DisjointTabs ==
    \A n1 \in navigations : \A n2 \in navigations :
        n1.source # n2.source => n1.page.tab # n2.page.tab

\* C19: a page is created only inside an attach that found a context without
\* pages, at most once per such attach; an attach that found a page creates
\* none; and a scraper creates at most one page in all.
C19_SinglePage ==
    /\ \A i \in DOMAIN sessionLog :
          LET e == sessionLog[i] IN
          /\ e.op = "newPage"
             => /\ i > 1
                /\ sessionLog[i - 1].op = "attach"
                /\ sessionLog[i - 1].ok
                /\ sessionLog[i - 1].source = e.source
                /\ sessionLog[i - 1].pages = 0
          /\ (e.op = "attach" /\ e.pages > 0 /\ i < Len(sessionLog))
             => sessionLog[i + 1].op # "newPage"
    /\ \A src \in BrowserSources :
          /\ NewPages(src) <= OkAttaches(src)
          /\ NewPages(src) <= 1

\* Capterra attached twice to a Chrome that had no page: one page was created
C19_Witness ==
    /\ NewPages("capterra") = 1
    /\ OkAttaches("capterra") = 2
    /\ pc = "loop"

\* the tabs of the Chrome
ChromeTabs == {chrome.tabs[i] : i \in DOMAIN chrome.tabs}

\* C20: once a scraper has a session, the Chrome stays open and the tab of the
\* scraper's page stays open, also after a source failed and after the loop
\* of main ended.
C20_BrowserStaysOpen ==
    \A src \in BrowserSources :
        /\ session[src].browser # NULL => chrome.running
        /\ session[src].page # NoPage
           => /\ chrome.running
              /\ session[src].page.tab \in ChromeTabs

\* G2 failed after it had attached, Capterra returned reviews, main is done
\* with its loop
C20_Witness ==
    /\ pc = "output"
    /\ session["g2"].page # NoPage
    /\ session["capterra"].page # NoPage
    /\ \E r \in ResultsOf("g2") : ~r.success
    /\ \E r \in ResultsOf("capterra") : r.success /\ r.count > 0

(***************************************************************************)
(* Properties of detectCaptcha (checked under SpecDetector)                *)
(***************************************************************************)
\* the condition of the claims C21 and C22: the content contains the phrase
\* in some letter-casing, i.e. the two are equal up to the casing of their
\* letters somewhere in the content (the test of the code, TextFound, takes
\* the phrase as it is written in the list)
ContainsInAnyCasing(content, phrase) ==
    includes(toLowerCase(content), toLowerCase(phrase))

\* a selector query finds a marker before any page operation raises
MarkerFound(v) ==
    /\ v.attached
    /\ \E i \in DOMAIN captchaSelectors :
          captchaSelectors[i] \in v.markers /\ (v.failAt = 0 \/ v.failAt > i)

\* a page operation of the call raises: there is no page, or the operation
\* that raises is reached before a marker is found
OperationFails(v) ==
    \/ ~v.attached
    \/ /\ v.failAt \in 1..ContentRead
       /\ \A i \in DOMAIN captchaSelectors :
             captchaSelectors[i] \in v.markers => i >= v.failAt

\* C21: whenever the content of the page contains a phrase of the scraper's
\* list (the phrase as written there) in any letter-casing, and no page
\* operation raises, detectCaptcha returns true.
C21_PhraseReportsBlocked ==
    (detector.pc # "idle" /\ view.attached /\ view.failAt = 0)
    => \A k \in DOMAIN captchaText(source) :
          ContainsInAnyCasing(view.content, captchaText(source)[k])
          => (detector.pc = "returned" /\ detector.result)

\* C22: detectCaptcha returns true whenever a marker of captchaSelectors is
\* present and the queries up to it do not raise, whatever the text of the
\* page; it returns false for a page without markers whose content contains
\* none of the phrases in any casing.
C22_MarkerOrNothing ==
    detector.pc # "idle"
    => /\ MarkerFound(view) => (detector.pc = "returned" /\ detector.result)
       /\ (/\ view.attached
           /\ view.failAt = 0
           /\ view.markers = {}
           /\ \A k \in DOMAIN captchaText(source) :
                 ~ContainsInAnyCasing(view.content, captchaText(source)[k]))
          => (detector.pc = "returned" /\ ~detector.result)
\* a marker alone, on a page with a benign text, gave true
C22_Witness ==
    /\ detector.pc = "returned"
    /\ detector.result
    /\ view.markers # {}
    /\ ~TextFound(source, view.content)

\* C23: a detectCaptcha call never raises, and when one of its page
\* operations raises (or no page is attached) it returns false.
C23_FailOpen ==
    /\ detector.pc # "raised"
    /\ (detector.pc = "returned" /\ OperationFails(view)) => ~detector.result
\* the query of a selector raised on a page that has a later marker, and the
\* call returned false
C23_Witness ==
    /\ detector.pc = "returned"
    /\ ~detector.result
    /\ view.attached
    /\ view.failAt \in 1..Len(captchaSelectors)
    /\ view.markers # {}

(***************************************************************************)
(* Properties of waitForPageReady and navigateToPage (checked under        *)
(* SpecWaiter)                                                             *)
(***************************************************************************)
\* a step that is one pass through the loop body of waitForPageReady
TickStep == waiter.pc = "polling" /\ StillWaiting(waiter, now)

\* C24: waitForPageReady returns true only in a tick in which the detector
\* reported no challenge and either no pattern was given or the URL contains
\* it; after a tick without a challenge whose URL lacks the given pattern the
\* call is still polling.
C24_ReadyOnlyWhenClear ==
    [][ /\ (waiter.pc # "returned" /\ waiter'.pc = "returned" /\ waiter'.result)
           => /\ TickStep
              /\ waiter'.tick.ran
              /\ ~detectCaptcha(source, view').value
              /\ (~waiter.pattern \/ waiter'.tick.urlHasPattern)
        /\ (/\ TickStep
            /\ waiter'.tick.ran
            /\ ~detectCaptcha(source, view').value
            /\ waiter.pattern
            /\ ~waiter'.tick.urlHasPattern)
           => waiter'.pc = "polling" ]_vars
\* a call with a pattern returned true, on a page without challenge whose
\* URL contains the pattern
C24_Witness ==
    /\ waiter.pc = "returned"
    /\ waiter.result
    /\ waiter.pattern
    /\ waiter.tick.urlHasPattern
    /\ ~detectCaptcha(source, view).value

\* C25: a tick in which the detector reported a challenge leaves the call
\* polling and takes at least the tick delay, so such ticks use up the
\* budget; a call in which every tick saw a challenge ends by returning
\* false; and false is returned only when at least maxWaitTime has passed
\* since the call started.
C25_TimedOutOnlyAfterBudget ==
    /\ [](/\ (waiter.pc = "returned" /\ ~waiter.result)
             => now - waiter.startTime >= waiter.maxWaitTime
          /\ (waiter.pc \in {"returned", "raised"} /\ waiter.everyTickBlocked)
             => (waiter.pc = "returned" /\ ~waiter.result))
    /\ [][ (TickStep /\ waiter'.tick.ran /\ detectCaptcha(source, view').value)
           => (waiter'.pc = "polling" /\ now' >= now + TickDelay) ]_vars
\* a call whose every tick saw a challenge returned false after its budget
C25_Witness ==
    /\ waiter.pc = "returned"
    /\ ~waiter.result
    /\ waiter.everyTickBlocked
    /\ waiter.tick.ran
    /\ now - waiter.startTime >= waiter.maxWaitTime

\* C26: a waitForPageReady call never ends by raising an error.
C26_NeverRaises == waiter.pc # "raised"

\* C27, as claimed: after a navigation that succeeded, navigateToPage returns
\* false only if a challenge was detected and the waiter timed out, and when
\* no challenge was detected it returns true without calling the waiter.
C27_FailsOnlyOnChallengeTimeout ==
    (navigate.pc # "idle" /\ navigate.gotoOk)
    => /\ (navigate.pc = "returned" /\ ~navigate.result)
          => (navigate.hasCaptcha /\ waiter.pc = "returned" /\ ~waiter.result)
       /\ ~navigate.hasCaptcha
          => (~navigate.waited /\ navigate.pc = "returned" /\ navigate.result)

\* C27, amended: after a navigation that succeeded, navigateToPage calls the
\* waiter exactly when a challenge was detected (budget 60000) or when no
\* challenge was detected but a pattern was given and the URL lacks it
\* (budget 30000); it returns false exactly when it called the waiter and the
\* waiter did not return true, and true otherwise.
C27_FailsOnlyAfterWait ==
    (navigate.pc # "idle" /\ navigate.gotoOk)
    => /\ navigate.waited
          <=> (navigate.hasCaptcha \/ (navigate.pattern /\ ~navigate.urlHasPattern))
       /\ navigate.waited
          => /\ waiter.caller = "navigateToPage"
             /\ waiter.pattern = navigate.pattern
             /\ waiter.maxWaitTime =
                   IF navigate.hasCaptcha THEN ChallengeBudget ELSE WrongPageBudget
       /\ navigate.pc = "returned"
          => (navigate.result
                <=> (~navigate.waited \/ (waiter.pc = "returned" /\ waiter.result)))
\* no challenge after the navigation, yet the waiter was called (the URL
\* lacked the pattern) and navigateToPage returned false
C27_Witness ==
    /\ navigate.pc = "returned"
    /\ navigate.gotoOk
    /\ ~navigate.hasCaptcha
    /\ navigate.waited
    /\ ~navigate.result

(***************************************************************************)
(* Properties of the order of operations (checked under SpecSerial)        *)
(***************************************************************************)
\* C28: at most one listing-page request or navigation is in flight, and it
\* is the one for the current page of the source that is running; a request
\* is begun only when none is in flight; the page number advances and reviews
\* are added only in the step that ends the request in flight and works
\* through its page; and main goes to another source only when nothing is in
\* flight and scrapeReviews of the previous one has returned or thrown.
C28_Serialized ==
    /\ [](/\ Cardinality(inFlight) <= 1
          /\ \A o \in inFlight : o.source = source /\ o.page = page /\ pc = "loop")
    /\ [][ /\ (inFlight' # inFlight /\ inFlight' # {})
              => (inFlight = {} /\ pc = "loop" /\ UNCHANGED <<page, reviews, last>>)
           /\ (pc = "loop" /\ pc' = "loop" /\ <<page, reviews>>' # <<page, reviews>>)
              => (inFlight # {} /\ inFlight' = {})
           /\ source' # source
              => (pc \in {"done", "failed"} /\ inFlight = {} /\ pc' = "start") ]_vars
\* the request for page 2 of the third source is in flight, after the first
\* two sources have returned or failed and page 1 has been worked through
C28_Witness ==
    /\ inFlight = {[source |-> "trustpilot", page |-> 2]}
    /\ Len(scrapingResults) = 2
    /\ last.outcome = "processed"

(***************************************************************************)
(* Properties of main (checked under SpecCli)                              *)
(***************************************************************************)
\* the options main has to reject: a date that is not a strict YYYY-MM-DD
\* date, start after end, start after the current time, or an unknown source
Rejected(opts) ==
    \/ opts.startDate \notin DOMAIN StrictMomentDay
    \/ opts.endDate \notin DOMAIN StrictMomentDay
    \/ StrictMomentDay[opts.startDate] > StrictMomentDay[opts.endDate]
    \/ StrictMomentDay[opts.startDate] > Today
    \/ opts.source \notin {"g2", "capterra", "trustpilot", "all"}

\* C29: with options that have to be rejected, main does nothing but end
\* with exit code 1: no scraper is started, no browser is attached or
\* launched, no page is requested or navigated to, and no output is written.
C29_RejectedBeforeAnyActivity ==
    Rejected(options)
    => /\ pc \in {"cli", "exited"}
       /\ pc = "exited" => (exitCode = 1 /\ mainError # "none")
       /\ pc = "cli" => exitCode = NULL
       /\ chrome = ChromeWithTabs(<< 1 >>)
       /\ sessionLog = << >>
       /\ session = [src \in BrowserSources |-> NoSession]
       /\ navigations = {}
       /\ inFlight = {}
       /\ last.outcome = "none"
       /\ scrapingResults = << >>
       /\ outputFile = NoFile
\* a run with valid dates and the source 'G2' has ended with exit code 1
C29_Witness ==
    /\ pc = "exited"
    /\ exitCode = 1
    /\ options.source = "G2"
    /\ mainError = "Invalid source"
    /\ outputFile = NoFile

\* the run collected at least one review across the requested sources
CollectedSome == \E i \in 1..Len(scrapingResults) : scrapingResults[i].count > 0

\* C30: a process that has ended has exit code 0 or 1, and 0 exactly when
\* the run collected at least one review and main's outer catch caught no
\* error; in particular a run whose sources all succeeded with zero reviews
\* in total ends with code 1.
C30_ExitCode ==
    /\ exitCode # NULL <=> pc = "exited"
    /\ pc = "exited"
       => /\ exitCode \in {0, 1}
          /\ exitCode = 0 <=> (CollectedSome /\ mainError = "none")
\* 'all' was requested, the three sources succeeded with no review, the
\* output was written, and the exit code is 1
C30_Witness ==
    /\ pc = "exited"
    /\ exitCode = 1
    /\ mainError = "none"
    /\ outputFile.written
    /\ Len(scrapingResults) = 3
    /\ \A i \in 1..Len(scrapingResults) :
          scrapingResults[i].success /\ scrapingResults[i].count = 0

(***************************************************************************)
(* Properties of the loop of main over the sources                         *)
(***************************************************************************)
\* the sources of the entries of scrapingResults, in the order recorded
RECURSIVE RecordedSources(_)
RecordedSources(results) ==
    IF results = << >> THEN << >>
    ELSE << Head(results).source >> \o RecordedSources(Tail(results))

\* the requested sources: those main has finished with, the one it is at,
\* and those still to come
RequestedSources ==
    RecordedSources(scrapingResults)
        \o (IF pc \in {"start", "loop", "done", "failed"} THEN << source >> ELSE << >>)
        \o queue

\* the errors scrapeReviews raises before its loop: no browser reachable,
\* no company name, the search failed, no product page found
SetupErrors == {"noBrowser", "invalidCompany", "searchFailed", "searchContentFailed",
                "productNotFound"}

\* C31 (checked under SpecMain): the requested sources are a sourcesToScrape
\* list and stay the same through the run, so each of them is reached in
\* order; when scrapeReviews of a source has raised, main records
\* {success: false, count: 0, error: message} for it, leaves allReviews as it
\* is and, if sources remain, starts scrapeReviews of the next one; and the
\* reviews of a source that returns are appended to allReviews whatever
\* happened to the sources before it.
C31_FailureIsRecordedAndLoopGoesOn ==
    /\ [](RequestedSources \in {sourcesToScrape(o) : o \in SourceOptions})
    /\ [][ /\ RequestedSources' = RequestedSources
           /\ pc = "failed" /\ pc' # pc
              => /\ scrapingResults' = Append(scrapingResults,
                        [source |-> source, success |-> FALSE, count |-> 0,
                         error |-> last.outcome])
                 /\ allReviews' = allReviews
                 /\ IF queue # << >>
                    THEN pc' = "start" /\ source' = Head(queue) /\ queue' = Tail(queue)
                    ELSE pc' = "output"
           /\ pc = "done" /\ pc' # pc
              => allReviews' = allReviews \o reviews ]_vars
\* 'all' was requested; G2 and Capterra raised before their loops, and
\* TrustPilot then returned reviews, which are all of allReviews
C31_Witness ==
    /\ pc = "output"
    /\ Len(scrapingResults) = 3
    /\ ~scrapingResults[1].success /\ scrapingResults[1].error \in SetupErrors
    /\ ~scrapingResults[2].success /\ scrapingResults[2].error \in SetupErrors
    /\ scrapingResults[3].success /\ scrapingResults[3].count > 0
    /\ Len(allReviews) = scrapingResults[3].count

(***************************************************************************)
(* Properties of the output (checked under SpecSort)                       *)
(***************************************************************************)
\* C32: the output that was written holds every aggregated review, and of
\* every two adjacent reviews in it the first is not older than the second
\* (by the date parseDate reads, the one that put the review in the window).
C32_OutputNewestFirst ==
    outputFile.written
    => /\ Len(outputFile.reviews) = outputFile.total_reviews
       /\ \A i \in 1..(Len(outputFile.reviews) - 1) :
             parseDate(outputFile.reviews[i].date) >= parseDate(outputFile.reviews[i + 1].date)

(***************************************************************************)
(* Further properties of scrapeReviews (checked under Spec)                *)
(***************************************************************************)
\* C33: when a pass of a G2 or Capterra run found no review element on page
\* p, detected a challenge and the waiter returned Ready, the page number
\* stays p and the loop goes on, so that page p is navigated to again.
C33_ResolvedChallengeRetriesPage ==
    [][(/\ IterationStep
        /\ source \in {"g2", "capterra"}
        /\ last'.outcome = "retry")
       => (page' = page /\ LoopCondition')]_vars

(***************************************************************************)
(* Properties of the date filter (checked under SpecFilter)                *)
(***************************************************************************)
\* the elements of the page that gave a record whose date parseDate reads
\* as a day before the window start
BeforeWindow == {i \in DOMAIN pageItems :
                    /\ pageItems[i] # NoRecord
                    /\ parseDate(pageItems[i]) # NULL
                    /\ parseDate(pageItems[i]) < startDate}
\* those that gave a record whose date parseDate does not read, or reads as
\* a day after the window end
UnparsedOrAfter == {i \in DOMAIN pageItems :
                    /\ pageItems[i] # NoRecord
                    /\ (parseDate(pageItems[i]) = NULL \/ parseDate(pageItems[i]) > endDate)}
\* the date strings of the reviews in the result
ResultDates == {reviews[i].date : i \in DOMAIN reviews}

\* C34: once a page is filtered, the before-window count is the number of
\* its items with a parsed date strictly before the window start (an item
\* with an unparsable date or a date after the window end is not counted),
\* no item with an unparsable date or a date after the window end is in the
\* result, and the early stop was decided with that count.
C34_OnlyEarlierItemsCount ==
    last.outcome \in {"processed", "stopped"}
    => /\ last.before = Cardinality(BeforeWindow)
       /\ \A i \in UnparsedOrAfter : pageItems[i] \notin ResultDates
       /\ last.outcome = "stopped" => Cardinality(BeforeWindow) > 0
\* page PageCap held an item before the window, an item with an unparsable
\* date and an item after the window: the count is 1 and the run stopped
C34_Witness ==
    /\ last.outcome = "stopped"
    /\ last.before = 1
    /\ Len(pageItems) = 3
    /\ Cardinality(UnparsedOrAfter) = 2
    /\ \E i, j \in UnparsedOrAfter : parseDate(pageItems[i]) = NULL /\ parseDate(pageItems[j]) > endDate
    /\ reviews = << >>

(***************************************************************************)
(* Properties of the empty-page counter and the page number (under Spec)   *)
(***************************************************************************)
\* the passes that count as empty: the page could not be acquired, or it
\* held no review element
EmptyOutcomes == AcquireFailures \cup {"empty", "retry", "captchaTimeout"}

\* C35: a pass over a page with at least one review element sets the
\* counter to 0, whatever the filter made of the elements; every other pass
\* adds 1 to it; so the counter is the number of passes in a row, up to the
\* last one, that got no review element, and a run that ended on the
\* threshold ended after that many such passes in a row.
C35_CounterResetOnElements ==
    /\ [][IterationStep
           => /\ last'.extracted > 0 <=> last'.outcome \in {"processed", "stopped"}
              /\ last'.extracted > 0 => consecutiveEmptyPages' = 0
              /\ last'.extracted = 0
                 => /\ last'.outcome \in EmptyOutcomes
                    /\ consecutiveEmptyPages' = consecutiveEmptyPages + 1]_vars
    /\ [](pc \in {"loop", "done"} /\ consecutiveEmptyPages > 0
           => last.outcome \in EmptyOutcomes)
    /\ [](consecutiveEmptyPages \in 0..EmptyPageThreshold(source))
\* a G2 run is at page 4 after a pass over a full page that had no review in
\* the window and none before it: the counter is 0 and the loop goes on
C35_Witness ==
    /\ source = "g2"
    /\ pc = "loop"
    /\ page = PageCap + 1
    /\ last.outcome = "processed"
    /\ last.extracted = MaxItems
    /\ last.before = 0
    /\ reviews = << >>
    /\ consecutiveEmptyPages = 0
    /\ LoopCondition

\* C36: a listing page is requested only under its own number, and unless
\* maxPages is -1 that number is at most maxPages (so that with maxPages = 0,
\* or below -1, none is requested); inside a run the page number never goes
\* down, and goes up by one at a time.
C36_PageCapRespected ==
    /\ [](\A o \in inFlight :
             /\ o.page = page
             /\ o.page >= 1
             /\ maxPages # -1 => o.page <= maxPages)
    /\ [](maxPages # -1 /\ maxPages < 1 => inFlight = {} /\ page = 1)
    /\ [][pc = "loop" /\ pc' = "loop" => page' \in {page, page + 1}]_vars
\* a run with maxPages = PageCap has ended because of the cap alone: every
\* page up to PageCap was worked through, the last one with review elements
C36_Witness ==
    /\ maxPages = PageCap
    /\ pc = "done"
    /\ page = PageCap + 1
    /\ hasMorePages
    /\ consecutiveEmptyPages = 0
    /\ last.outcome = "processed"

\* the URL a scraper builds for page p of the product its search found
RequestedUrl(src, p) == pageUrl(src, findProductUrl(src, SampleHref(src)), p)

\* C37: the URL of every listing-page request in flight has exactly one
\* query parameter named page, whose value is the page number of the request
\* (the URL of page 1 of TrustPilot may have none).
C37_OnePageParameter ==
    \A o \in inFlight :
        LET values == PageParameters(RequestedUrl(o.source, o.page))
        IN \/ values = << toString(o.page) >>
           \/ o.source = "trustpilot" /\ o.page = 1 /\ values = << >>

(***************************************************************************)
(* Properties of the recorded results (checked under SpecOutput)           *)
(***************************************************************************)
\* the sum of the counts of the entries that record a success
RECURSIVE SuccessfulCount(_)
SuccessfulCount(results) ==
    IF results = << >> THEN 0
    ELSE (IF Head(results).success THEN Head(results).count ELSE 0)
         + SuccessfulCount(Tail(results))

\* C38: once the loop over the sources has ended, scrapingResults has one
\* entry per requested source, in the order requested; each entry is a
\* success with error null or a failure with count 0 and an error message;
\* the number of aggregated reviews, which is total_reviews of the output, is
\* the sum of the counts of the successes; and when a source has raised,
\* recording it leaves the aggregated reviews as they are, whatever the
\* source had collected.
C38_OneEntryPerSourceAndTotal ==
    /\ [](pc \in {"output", "exited"}
           => /\ RecordedSources(scrapingResults) = sourcesToScrape("all")
              /\ \A i \in 1..Len(scrapingResults) :
                    LET r == scrapingResults[i]
                    IN \/ r.success /\ r.error = "null" /\ r.count >= 0
                       \/ ~r.success /\ r.count = 0 /\ r.error # "null"
              /\ Len(allReviews) = SuccessfulCount(scrapingResults)
              /\ outputFile.written
                 => /\ outputFile.scraping_results = scrapingResults
                    /\ outputFile.total_reviews = SuccessfulCount(scrapingResults)
                    /\ Len(outputFile.reviews) = outputFile.total_reviews)
    /\ [][pc = "failed" /\ pc' # pc
           => /\ allReviews' = allReviews
              /\ scrapingResults'[Len(scrapingResults')].count = 0]_vars
\* the output was written after a run in which G2 raised inside its loop
\* (the challenge wait failed) and a later source returned reviews
C38_Witness ==
    /\ pc = "exited"
    /\ outputFile.written
    /\ Len(outputFile.scraping_results) = 3
    /\ outputFile.scraping_results[1] =
          [source |-> "g2", success |-> FALSE, count |-> 0, error |-> "waitFailed"]
    /\ outputFile.scraping_results[3].success
    /\ outputFile.total_reviews = outputFile.scraping_results[3].count
    /\ outputFile.total_reviews > 0

(***************************************************************************)
(* Properties of navigateToPage and its caller (checked under SpecNavigate) *)
(***************************************************************************)
\* C39: a navigateToPage call is under way or has returned, it never ends
\* with an error; it has returned false when page.goto or the wait after it
\* failed (a navigation timeout, a tab that is gone), and when its
\* waitForPageReady call raised or did not return true; and the pass of the
\* loop body that got false from it adds no review, extracts nothing, and
\* goes to the next page number with the counter of empty pages one higher
\* (as a challenge that was not resolved in time when the waiter returned
\* false after a challenge, as a failed navigation otherwise).
C39_NavigateNeverRaises ==
    /\ [](/\ navigate.pc \in {"idle", "waiting", "returned"}
          /\ navigate.pc = "returned"
             => /\ ~navigate.gotoOk => ~navigate.result
                /\ navigate.waited
                   => (navigate.result <=> (waiter.pc = "returned" /\ waiter.result))
                /\ navigate.result
                   <=> navigateToPage(navigate.gotoOk, navigate.hasCaptcha,
                                      ~navigate.waited, navigate.result))
    /\ [][(navigate.pc = "returned" /\ ~navigate.result /\ inFlight # {} /\ inFlight' = {})
           => /\ reviews' = reviews
              /\ last'.outcome =
                    IF navigate.gotoOk /\ navigate.hasCaptcha /\ waiter.pc = "returned"
                    THEN "navigateTimeout"
                    ELSE "navigateFailed"
              /\ last'.extracted = 0
              /\ page' = page + 1
              /\ consecutiveEmptyPages' = consecutiveEmptyPages + 1
              /\ pc' = "loop"]_vars
\* the waitForPageReady call of a navigation that met a challenge raised,
\* navigateToPage returned false by its catch, and the pass went on to page 3
\* with the one review of page 1
C39_Witness ==
    /\ navigate.pc = "returned"
    /\ navigate.waited
    /\ waiter.pc = "raised"
    /\ ~navigate.result
    /\ inFlight = {}
    /\ page = 3
    /\ Len(reviews) = 1
    /\ navigate.hasCaptcha
    /\ last.outcome = "navigateFailed"

(***************************************************************************)
(* Properties of the session fields (checked under SpecMain)               *)
(***************************************************************************)
\* C40: a scraper's session is never half initialised: this.browser is set
\* only when this.page is set, and a session acquisition that failed (its
\* connectToExistingChrome calls returned false and initializeBrowser threw)
\* leaves this.browser and this.page as they were before it.
C40_SessionNeverHalfInitialised ==
    /\ [](\A src \in BrowserSources :
            session[src].browser # NULL => session[src].page # NoPage)
    /\ [][\A src \in BrowserSources :
            (/\ Len(sessionLog') > Len(sessionLog)
             /\ sessionLog'[Len(sessionLog')] = Step(src, "throw", FALSE, 0))
            => session'[src] = session[src]]_vars
====
